---- MODULE Spec2Model ----
(***************************************************************************)
(* A state-machine model of ore_xccy_curve: the market-data snapshot       *)
(* (market_data.py), the name registries and the XCCYCurveBuilder          *)
(* (curve_builder.py), and the curve objects the builder and the loaders   *)
(* (curve_loaders.py) create through the ORE/QuantLib bindings.            *)
(*                                                                         *)
(* Numbers are exact rationals [n, d] in lowest terms (floating-point      *)
(* rounding is not modelled).  Dates are day numbers.  A tenor string is   *)
(* the sequence of its characters.                                         *)
(***************************************************************************)
EXTENDS Integers, Sequences, FiniteSets, TLC

VARIABLES
    md,              \* the XCCYMarketData object (mutable dataclass)
    registry,        \* the three class-level name registries
    evaluationDate,  \* ore.Settings.instance().evaluationDate (process-wide)
    pool,            \* names of the builder objects a run may construct
    builder,         \* builder name -> XCCYCurveBuilder object, or None
    oisBuilder,      \* the OISCurveBuilder object, or None
    curves,          \* heap of term-structure objects
    handles,         \* heap of (relinkable) term-structure handles
    quotes,          \* heap of SimpleQuote objects
    files,           \* the files curves are saved to: path -> content
    last             \* the last call: operation, arguments, result or exception

vars == <<md, registry, evaluationDate, pool, builder, oisBuilder, curves, handles, quotes, files, last>>

None == "None"

\* The null reference where a heap index (a handle, a quote, a curve) is
\* expected: heap indices start at 1.
Null == 0

\* A name bound to no builder object.
NoBuilder == [alive |-> FALSE]

\* The value of a call that returns None, or raises.
Nothing == [none |-> TRUE]

\* A call's outcome: exc = None and a value, or the exception raised.
Ok(v) == [exc |-> None, msg |-> None, val |-> v]
Raise(e, m) == [exc |-> e, msg |-> m, val |-> Nothing]

\* The record of a call: the operation, the builder it was called on (if
\* any), its argument, and its outcome.
Result(op, b, arg, r) ==
    [op |-> op, b |-> b, arg |-> arg, exc |-> r.exc, msg |-> r.msg, val |-> r.val]

(***************************************************************************)
(* Exact rational arithmetic.                                              *)
(***************************************************************************)
Abs(x) == IF x < 0 THEN -x ELSE x

RECURSIVE GCD(_, _)
GCD(a, b) == IF b = 0 THEN a ELSE GCD(b, a % b)

RatBy(n, d, g, s) == [n |-> (s * n) \div g, d |-> (s * d) \div g]
Rat(n, d) == RatBy(n, d, GCD(Abs(n), Abs(d)), IF d < 0 THEN -1 ELSE 1)

RInt(k) == [n |-> k, d |-> 1]

\* Sums and products cancel common factors before they multiply.
RAddBy(a, b, g) == Rat(a.n * (b.d \div g) + b.n * (a.d \div g), (a.d \div g) * b.d)
RAdd(a, b) == RAddBy(a, b, GCD(a.d, b.d))

RMulBy(a, b, g1, g2) == Rat((a.n \div g1) * (b.n \div g2), (a.d \div g2) * (b.d \div g1))
RMul(a, b) ==
    IF a.n = 0 \/ b.n = 0 THEN [n |-> 0, d |-> 1]
    ELSE RMulBy(a, b, GCD(Abs(a.n), b.d), GCD(Abs(b.n), a.d))

RInv(a) == IF a.n < 0 THEN [n |-> -a.d, d |-> -a.n] ELSE [n |-> a.d, d |-> a.n]
RDiv(a, b) == RMul(a, RInv(b))
RPos(a) == a.n > 0
ROne == RInt(1)

(***************************************************************************)
(* Numbers as text.  A numeral with 15 decimals is kept as its integer     *)
(* part ip, its first nine decimals hi and its last six decimals lo.       *)
(***************************************************************************)
HiScale == 1000000000
LoScale == 1000000

\* The next k decimals of r/d (r < d), and the remainder after them.
RECURSIVE Decimals(_, _, _, _)
Decimals(r, d, k, acc) ==
    IF k = 0 THEN [val |-> acc, rem |-> r]
    ELSE Decimals((r * 10) % d, d, k - 1, acc * 10 + (r * 10) \div d)

Dec(ip, hi, lo) == [ip |-> ip, hi |-> hi, lo |-> lo]
IsDec(v) == "hi" \in DOMAIN v

CarryHi(ip, hi, lo) == IF hi = HiScale THEN Dec(ip + 1, 0, lo) ELSE Dec(ip, hi, lo)
Carry(ip, hi, lo) == IF lo = LoScale THEN CarryHi(ip, hi + 1, 0) ELSE Dec(ip, hi, lo)

FormatRound(ip, hi, L, d, places) ==
    Carry(ip, hi, IF (L.rem * 10) \div d >= 5 THEN L.val + 1 ELSE L.val)
FormatFrom(ip, H, d, places) ==
    FormatRound(ip, H.val, Decimals(H.rem, d, places - 9, 0), d, places)

\* f"{x:.15f}" of a non-negative number: 15 decimals, rounded at the 16th.
Format15f(x) == FormatFrom(x.n \div x.d, Decimals(x.n % x.d, x.d, 9, 0), x.d, 15)

TruncFrom(ip, hi, L) == [ip |-> ip, hi |-> hi, lo |-> L.val, exact |-> L.rem = 0]
TruncAt(ip, H, d) == TruncFrom(ip, H.val, Decimals(H.rem, d, 6, 0))

\* The first 15 decimals of a non-negative number, and whether they are
\* all of it.
Trunc15(x) == TruncAt(x.n \div x.d, Decimals(x.n % x.d, x.d, 9, 0), x.d)

\* 1e-10 in units of the 15th decimal.
Tolerance == 100000

DecCloseBy(v, X, dh) ==
    /\ dh \in {-1, 0, 1}
    /\ dh * LoScale + (v.lo - X.lo) > -Tolerance
    /\ \/ dh * LoScale + (v.lo - X.lo) < Tolerance
       \/ dh * LoScale + (v.lo - X.lo) = Tolerance /\ ~X.exact

DecClose(v, X) ==
    /\ v.ip - X.ip \in {-1, 0, 1}
    /\ DecCloseBy(v, X, (v.ip - X.ip) * HiScale + (v.hi - X.hi))

\* abs(v - x) < 1e-10, for a numeral or a number v and a number x.
Within(v, x) == IF IsDec(v) THEN DecClose(v, Trunc15(x)) ELSE v = x

\* v > 0, for a numeral or a number.
Positive(v) == IF IsDec(v) THEN v.ip > 0 \/ v.hi > 0 \/ v.lo > 0 ELSE RPos(v)

(***************************************************************************)
(* Tenor strings and periods.                                              *)
(***************************************************************************)
Digits == {"0", "1", "2", "3", "4", "5", "6", "7", "8", "9"}

DigitVal(c) ==
    CASE c = "0" -> 0 [] c = "1" -> 1 [] c = "2" -> 2 [] c = "3" -> 3
      [] c = "4" -> 4 [] c = "5" -> 5 [] c = "6" -> 6 [] c = "7" -> 7
      [] c = "8" -> 8 [] c = "9" -> 9

RECURSIVE DigitsVal(_)
DigitsVal(s) ==
    IF s = <<>> THEN 0
    ELSE 10 * DigitsVal(SubSeq(s, 1, Len(s) - 1)) + DigitVal(s[Len(s)])

AllDigits(s) == Len(s) > 0 /\ \A i \in 1..Len(s) : s[i] \in Digits

\* Python's int(str): an optional sign, then at least one digit.
PyInt(s) ==
    IF s # <<>> /\ s[1] \in {"+", "-"}
    THEN IF AllDigits(Tail(s))
         THEN [ok |-> TRUE, val |-> (IF s[1] = "-" THEN -1 ELSE 1) * DigitsVal(Tail(s))]
         ELSE [ok |-> FALSE, val |-> 0]
    ELSE IF AllDigits(s)
         THEN [ok |-> TRUE, val |-> DigitsVal(s)]
         ELSE [ok |-> FALSE, val |-> 0]

EndsWith(s, c) == Len(s) > 0 /\ s[Len(s)] = c

\* XCCYCurveBuilder._tenor_to_period: ok = FALSE stands for the ValueError
\* (of int(), or "Unknown tenor format").
TenorToPeriod(tenor) ==
    IF EndsWith(tenor, "W") \/ EndsWith(tenor, "M") \/ EndsWith(tenor, "Y")
    THEN LET k == PyInt(SubSeq(tenor, 1, Len(tenor) - 1))
         IN  IF k.ok THEN [ok |-> TRUE, n |-> k.val, unit |-> tenor[Len(tenor)]]
             ELSE [ok |-> FALSE, n |-> 0, unit |-> "?"]
    ELSE [ok |-> FALSE, n |-> 0, unit |-> "?"]

\* Calendar.advance by a period, holidays and roll conventions aside:
\* a week is 7 days, a month 30, a year 360 (so 12M and 1Y coincide).
PeriodDays(p) ==
    CASE p.unit = "W" -> 7 * p.n
      [] p.unit = "M" -> 30 * p.n
      [] p.unit = "Y" -> 360 * p.n

(***************************************************************************)
(* The name registries (class attributes of the three factories).  A       *)
(* registry maps a name to its constructor; a built-in constructor is      *)
(* named after the convention it creates.                                  *)
(***************************************************************************)
IndexNames == {"SOFR", "SONIA", "ESTR", "TONAR", "SARON", "AONIA", "CORRA"}
CalendarNames == {"US-FederalReserve", "US-NYSE", "UK-Exchange", "TARGET",
                  "Japan", "Switzerland", "Australia", "Canada"}
DayCountNames == {"Actual360", "Actual365Fixed", "Actual365NoLeap",
                  "ActualActual", "Thirty360"}

INDEX_REGISTRY == [n \in IndexNames |-> n]
CALENDAR_REGISTRY == [n \in CalendarNames |-> n]
DAYCOUNT_REGISTRY == [n \in DayCountNames |-> n]

Registry0 ==
    [index |-> INDEX_REGISTRY, calendar |-> CALENDAR_REGISTRY, daycount |-> DAYCOUNT_REGISTRY]

\* A create that hands back the name it was given when no constructor is
\* registered under it.
FactoryCreateAnyName(reg, name, unknown) ==
    IF name \notin DOMAIN reg THEN Ok(name) ELSE Ok(reg[name])

\* OISIndexFactory.create, CalendarFactory.create, DayCountFactory.create:
\* the result of the constructor registered under the name.
FactoryCreate(reg, name, unknown) ==
    IF name \notin DOMAIN reg
    THEN Raise("ValueError", unknown)
    ELSE Ok(reg[name])

OISIndexFactoryCreate(name) == FactoryCreate(registry.index, name, "Unknown OIS index")
CalendarFactoryCreate(name) == FactoryCreate(registry.calendar, name, "Unknown calendar")
DayCountFactoryCreate(name) == FactoryCreate(registry.daycount, name, "Unknown day count")

\* reg[name] = constructor, for a name new or known.
Registered(reg, name, constructor) ==
    [n \in DOMAIN reg \cup {name} |-> IF n = name THEN constructor ELSE reg[n]]

\* What a create returns to its caller: the object the constructor made,
\* for an index on the curve handle it was called with.
Created(r, curve_handle) ==
    IF r.exc # None THEN r ELSE Ok([created |-> r.val, curve_handle |-> curve_handle])

\* OISIndexFactory.create(index_name, curve_handle).
CreateIndex(name, curve_handle) ==
    /\ last' = Result("OISIndexFactory.create", None,
                      [name |-> name, curve_handle |-> curve_handle],
                      Created(OISIndexFactoryCreate(name), curve_handle))
    /\ UNCHANGED <<md, registry, evaluationDate, pool, oisBuilder, files, builder, curves, handles, quotes>>

\* CalendarFactory.create(calendar_name).
CreateCalendar(name) ==
    /\ last' = Result("CalendarFactory.create", None,
                      [name |-> name, curve_handle |-> Null],
                      Created(CalendarFactoryCreate(name), Null))
    /\ UNCHANGED <<md, registry, evaluationDate, pool, oisBuilder, files, builder, curves, handles, quotes>>

\* DayCountFactory.create(day_count_name).
CreateDayCount(name) ==
    /\ last' = Result("DayCountFactory.create", None,
                      [name |-> name, curve_handle |-> Null],
                      Created(DayCountFactoryCreate(name), Null))
    /\ UNCHANGED <<md, registry, evaluationDate, pool, oisBuilder, files, builder, curves, handles, quotes>>

\* OISIndexFactory.register(name, constructor).
RegisterIndex(name, constructor) ==
    /\ registry' = [registry EXCEPT !.index = Registered(registry.index, name, constructor)]
    /\ last' = Result("OISIndexFactory.register", None,
                      [name |-> name, constructor |-> constructor], Ok(Nothing))
    /\ UNCHANGED <<md, evaluationDate, pool, oisBuilder, files, builder, curves, handles, quotes>>

\* CalendarFactory.register(name, constructor).
RegisterCalendar(name, constructor) ==
    /\ registry' = [registry EXCEPT !.calendar = Registered(registry.calendar, name, constructor)]
    /\ last' = Result("CalendarFactory.register", None,
                      [name |-> name, constructor |-> constructor], Ok(Nothing))
    /\ UNCHANGED <<md, evaluationDate, pool, oisBuilder, files, builder, curves, handles, quotes>>

(***************************************************************************)
(* Market data.                                                            *)
(***************************************************************************)
FXForwardQuote(tenor, forward_points) ==
    [tenor |-> tenor, forward_points |-> forward_points]

XCCYBasisSwapQuote(tenor, basis_spread) ==
    [tenor |-> tenor, basis_spread |-> basis_spread]

CurrencyConfig(ccy, ois_index_name, calendar_name, day_count) ==
    [ccy |-> ccy, ois_index_name |-> ois_index_name,
     calendar_name |-> calendar_name, day_count |-> day_count]

\* XCCYMarketData(...) with __post_init__.
XCCYMarketData(valuation_date, domestic_ccy, foreign_ccy, fx_spot, fx_forwards, xccy_basis_swaps, fx_base_ccy) ==
    [valuation_date |-> valuation_date,
     domestic_ccy |-> domestic_ccy,
     foreign_ccy |-> foreign_ccy,
     fx_spot |-> fx_spot,
     fx_forwards |-> fx_forwards,
     xccy_basis_swaps |-> xccy_basis_swaps,
     fx_base_ccy |-> IF fx_base_ccy = None THEN foreign_ccy.ccy ELSE fx_base_ccy]

\* XCCYMarketData.is_fx_base_domestic (a property: evaluated at every read).
is_fx_base_domestic(m) == m.fx_base_ccy = m.domestic_ccy.ccy

\* The foreign currency code followed by the domestic one, whatever the
\* FX base currency.
CcyPairForeignDomestic(m) == m.foreign_ccy.ccy \o m.domestic_ccy.ccy

\* The FX base currency code followed by the domestic one, whatever the
\* foreign currency.
CcyPairBaseDomestic(m) == m.fx_base_ccy \o m.domestic_ccy.ccy

\* XCCYMarketData.ccy_pair: the f-string of the two codes.
ccy_pair(m) ==
    LET fx_quote_ccy == IF m.fx_base_ccy = m.foreign_ccy.ccy
                        THEN m.domestic_ccy.ccy ELSE m.foreign_ccy.ccy
    IN  m.fx_base_ccy \o fx_quote_ccy

\* The index of the first quote of qs with the tenor, from i on; 0 if none.
RECURSIVE FirstWithTenor(_, _, _)
FirstWithTenor(qs, tenor, i) ==
    IF i > Len(qs) THEN 0
    ELSE IF qs[i].tenor = tenor THEN i
    ELSE FirstWithTenor(qs, tenor, i + 1)

PipsPerUnit == 10000

UnknownTenor == Raise("ValueError", "Unknown tenor")

ForwardRateAt(m, qs, i) ==
    IF i = 0 THEN UnknownTenor
    ELSE Ok(RAdd(m.fx_spot, RDiv(qs[i].forward_points, RInt(PipsPerUnit))))

\* A lookup that goes on to the basis-swap list when the FX-forward list
\* has no quote with the tenor.
GetForwardRateAnyList(m, tenor) ==
    LET i == FirstWithTenor(m.fx_forwards, tenor, 1)
        j == FirstWithTenor(m.xccy_basis_swaps, tenor, 1)
    IN  IF i # 0 THEN ForwardRateAt(m, m.fx_forwards, i)
        ELSE IF j # 0
        THEN Ok(RAdd(m.fx_spot, RDiv(m.xccy_basis_swaps[j].basis_spread, RInt(PipsPerUnit))))
        ELSE UnknownTenor

\* XCCYMarketData.get_forward_rate.
get_forward_rate(m, tenor) ==
    ForwardRateAt(m, m.fx_forwards, FirstWithTenor(m.fx_forwards, tenor, 1))

BasisSpreadAt(qs, i) ==
    IF i = 0 THEN UnknownTenor ELSE Ok(qs[i].basis_spread)

\* XCCYMarketData.get_basis_spread_bps.
get_basis_spread_bps(m, tenor) ==
    BasisSpreadAt(m.xccy_basis_swaps, FirstWithTenor(m.xccy_basis_swaps, tenor, 1))

\* Assignments to the fields of the (non-frozen) dataclass.
AssignFxBaseCcy(c) ==
    /\ md' = [md EXCEPT !.fx_base_ccy = c]
    /\ last' = Result("set_fx_base_ccy", None, [ccy |-> c], Ok(Nothing))
    /\ UNCHANGED <<registry, evaluationDate, pool, oisBuilder, files, builder, curves, handles, quotes>>

AssignDomesticCcy(cfg) ==
    /\ md' = [md EXCEPT !.domestic_ccy = cfg]
    /\ last' = Result("set_domestic_ccy", None, [ccy |-> cfg.ccy], Ok(Nothing))
    /\ UNCHANGED <<registry, evaluationDate, pool, oisBuilder, files, builder, curves, handles, quotes>>

AssignForeignCcy(cfg) ==
    /\ md' = [md EXCEPT !.foreign_ccy = cfg]
    /\ last' = Result("set_foreign_ccy", None, [ccy |-> cfg.ccy], Ok(Nothing))
    /\ UNCHANGED <<registry, evaluationDate, pool, oisBuilder, files, builder, curves, handles, quotes>>

\* A read of md.is_fx_base_domestic.
ReadIsFxBaseDomestic ==
    /\ last' = Result("is_fx_base_domestic", None, Nothing,
                      Ok([flag |-> is_fx_base_domestic(md)]))
    /\ UNCHANGED <<md, registry, evaluationDate, pool, oisBuilder, files, builder, curves, handles, quotes>>

\* A read of md.ccy_pair.
ReadCcyPair ==
    /\ last' = Result("ccy_pair", None, Nothing, Ok([pair |-> ccy_pair(md)]))
    /\ UNCHANGED <<md, registry, evaluationDate, pool, oisBuilder, files, builder, curves, handles, quotes>>

\* A dataclass constructor that keeps whatever fields it is given.
DataclassInitAnyField(fields, kwargs) == Ok(kwargs)

\* The __init__ a dataclass generates: the arguments are the declared
\* fields, by name; any other name, or a field left out, is a TypeError.
DataclassInit(fields, kwargs) ==
    IF DOMAIN kwargs \ fields # {}
    THEN Raise("TypeError", "__init__() got an unexpected keyword argument")
    ELSE IF fields \ DOMAIN kwargs # {}
    THEN Raise("TypeError", "__init__() missing required positional argument")
    ELSE Ok(kwargs)

FXForwardQuoteFields == {"tenor", "forward_points"}
XCCYBasisSwapQuoteFields == {"tenor", "basis_spread"}

\* FXForwardQuote(**kwargs).
NewFXForwardQuote(kwargs) ==
    /\ last' = Result("FXForwardQuote", None, kwargs,
                      DataclassInit(FXForwardQuoteFields, kwargs))
    /\ UNCHANGED <<md, registry, evaluationDate, pool, oisBuilder, files, builder, curves, handles, quotes>>

\* XCCYBasisSwapQuote(**kwargs).
NewXCCYBasisSwapQuote(kwargs) ==
    /\ last' = Result("XCCYBasisSwapQuote", None, kwargs,
                      DataclassInit(XCCYBasisSwapQuoteFields, kwargs))
    /\ UNCHANGED <<md, registry, evaluationDate, pool, oisBuilder, files, builder, curves, handles, quotes>>

\* md.get_forward_rate(tenor).
GetForwardRate(tenor) ==
    /\ last' = Result("get_forward_rate", None, [tenor |-> tenor],
                      get_forward_rate(md, tenor))
    /\ UNCHANGED <<md, registry, evaluationDate, pool, oisBuilder, files, builder, curves, handles, quotes>>

\* md.get_basis_spread_bps(tenor).
GetBasisSpreadBps(tenor) ==
    /\ last' = Result("get_basis_spread_bps", None, [tenor |-> tenor],
                      get_basis_spread_bps(md, tenor))
    /\ UNCHANGED <<md, registry, evaluationDate, pool, oisBuilder, files, builder, curves, handles, quotes>>

(***************************************************************************)
(* Term structures, as the builder and the loaders use them through the    *)
(* ORE bindings.  A flat curve discounts with simple compounding on a      *)
(* 360-day year, which keeps every discount factor rational.  Curves are   *)
(* read at their nodes only, so the interpolation between two nodes never  *)
(* enters.                                                                 *)
(***************************************************************************)
FlatForward(ref, rate) ==
    [kind |-> "FlatForward", ref |-> ref, rate |-> rate, extrap |-> FALSE]

FlatDiscount(c, d) ==
    RDiv(ROne, RAdd(ROne, RMul(c.rate, Rat(d - c.ref, 360))))

RECURSIVE NodeIndex(_, _, _)
NodeIndex(dates, d, i) ==
    IF i > Len(dates) THEN 0
    ELSE IF dates[i] = d THEN i
    ELSE NodeIndex(dates, d, i + 1)

StrictlyIncreasing(dates) ==
    \A i \in 1..(Len(dates) - 1) : dates[i] < dates[i + 1]

\* A curve left as its constructor made it.
KeepExtrapolation(c) == c

\* curve.enableExtrapolation().
EnableExtrapolation(c) == [c EXCEPT !.extrap = TRUE]

\* ore.DiscountCurve(dates, discounts, day_count): at least two nodes, the
\* first discount 1, the dates strictly increasing, the discounts positive.
DiscountCurve(dates, values) ==
    IF Len(dates) < 2 THEN Raise("RuntimeError", "not enough input dates given")
    ELSE IF values[1] # ROne THEN Raise("RuntimeError", "the first discount must be == 1.0")
    ELSE IF ~StrictlyIncreasing(dates) THEN Raise("RuntimeError", "invalid date")
    ELSE IF \E i \in 1..Len(values) : ~Positive(values[i])
    THEN Raise("RuntimeError", "negative discount")
    ELSE Ok([kind |-> "DiscountCurve", dates |-> dates, values |-> values,
             extrap |-> FALSE])

\* ore.ZeroCurve(dates, yields, day_count).
ZeroCurve(dates, values) ==
    IF Len(dates) < 2 THEN Raise("RuntimeError", "not enough input dates given")
    ELSE IF ~StrictlyIncreasing(dates) THEN Raise("RuntimeError", "invalid date")
    ELSE Ok([kind |-> "ZeroCurve", dates |-> dates, values |-> values,
             extrap |-> FALSE])

\* A helper's pillar: the spot date (evaluation date plus the settlement
\* lag) advanced by the tenor.  The helper dates are relative to the
\* evaluation date in force when they are computed.
HelperPillar(h, evalDate) == evalDate + h.settlementDays + PeriodDays(h.period)

RECURSIVE InsertByPillar(_, _, _)
InsertByPillar(sorted, h, evalDate) ==
    IF sorted = <<>> THEN <<h>>
    ELSE IF HelperPillar(h, evalDate) < HelperPillar(Head(sorted), evalDate)
         THEN <<h>> \o sorted
         ELSE <<Head(sorted)>> \o InsertByPillar(Tail(sorted), h, evalDate)

RECURSIVE SortByPillar(_, _)
SortByPillar(hs, evalDate) ==
    IF hs = <<>> THEN <<>>
    ELSE InsertByPillar(SortByPillar(SubSeq(hs, 1, Len(hs) - 1), evalDate),
                        hs[Len(hs)], evalDate)

RECURSIVE DropExpired(_, _, _)
DropExpired(hs, ref, evalDate) ==
    IF hs = <<>> THEN <<>>
    ELSE IF HelperPillar(Head(hs), evalDate) <= ref
         THEN DropExpired(Tail(hs), ref, evalDate)
         ELSE hs

DistinctPillars(hs, evalDate) ==
    \A i \in 1..(Len(hs) - 1) :
        HelperPillar(hs[i], evalDate) # HelperPillar(hs[i + 1], evalDate)

FxImpliedFrom(h, spot, collDf, fwd) ==
    IF ~RPos(fwd) \/ ~RPos(spot) THEN Raise("RuntimeError", "root not bracketed")
    ELSE IF h.isFxBaseCurrencyCollateralCurrency
         THEN Ok(RMul(collDf, RDiv(spot, fwd)))
         ELSE Ok(RMul(collDf, RDiv(fwd, spot)))

\* The discount factor an FX-swap helper's quote implies at its pillar,
\* by covered interest parity against the collateral curve's discount
\* factor collDf.  spot is units of quote currency per unit of base
\* currency and the forward is spot + points.  The discounting over the
\* settlement lag is taken to be the same on both curves.
FxImpliedDiscount(h, spot, collDf) == FxImpliedFrom(h, spot, collDf, RAdd(spot, h.quote))

SwapImpliedFrom(growth) ==
    IF ~RPos(growth) THEN Raise("RuntimeError", "root not bracketed")
    ELSE Ok(RInv(growth))

\* The discount factor a basis-swap helper's quote implies at its pillar:
\* the foreign leg, paying the foreign index plus the spread on a fixed
\* notional, is worth par.  The swap is reduced to one accrual period.
SwapImpliedDiscount(h, indexDf, days) ==
    SwapImpliedFrom(RAdd(RInv(indexDf), RMul(h.quote, Rat(days, 360))))

\* A ZeroCurve node read as if its stored yield were a discount factor.
NodeValueStored(c, d) ==
    CASE c.kind = "FlatForward" -> FlatDiscount(c, d)
      [] c.kind \in {"DiscountCurve", "ZeroCurve"} -> c.values[NodeIndex(c.dates, d, 1)]
      [] c.kind = "PiecewiseLogLinearDiscount" ->
            c.nodes[NodeIndex([i \in 1..Len(c.nodes) |-> c.nodes[i].date], d, 1)].df

\* Reading a curve at one of its nodes (its reference date included).
\* A ZeroCurve discounts by exp(-z t), which is 1 at t = 0 and is kept
\* symbolic elsewhere.
NodeValue(c, d) ==
    CASE c.kind = "FlatForward" -> FlatDiscount(c, d)
      [] c.kind = "DiscountCurve" -> c.values[NodeIndex(c.dates, d, 1)]
      [] c.kind = "ZeroCurve" ->
            IF d = c.dates[1] THEN ROne
            ELSE [exp |-> c.values[NodeIndex(c.dates, d, 1)], t |-> d - c.dates[1]]
      [] c.kind = "PiecewiseLogLinearDiscount" ->
            c.nodes[NodeIndex([i \in 1..Len(c.nodes) |-> c.nodes[i].date], d, 1)].df

HandleCurve(hd) == curves[handles[hd].link]

\* The discount factor an OIS helper's quote implies at its pillar: the
\* fixed leg at the quoted rate is worth the floating leg.  The swap is
\* reduced to one accrual period.
OisImpliedDiscount(h, days) ==
    SwapImpliedFrom(RAdd(ROne, RMul(h.quote, Rat(days, 360))))

HelperImpliedAt(h, ref, pillar) ==
    IF h.type = "ois" THEN OisImpliedDiscount(h, pillar - ref)
    ELSE IF h.type = "fx"
    THEN FxImpliedDiscount(h, quotes[h.spot], NodeValue(HandleCurve(h.coll), pillar))
    ELSE SwapImpliedDiscount(h, NodeValue(HandleCurve(h.foreignIndexCurve), pillar),
                             pillar - ref)

HelperImpliedDiscount(h, evalDate, ref) ==
    HelperImpliedAt(h, ref, HelperPillar(h, evalDate))

\* A step that keeps the new pillar alone.
AddNodeAlone(nodes, pillar, r) ==
    IF r.exc # None THEN r
    ELSE Ok(<<nodes.val[1], [date |-> pillar, df |-> r.val]>>)

AddNode(nodes, pillar, r) ==
    IF r.exc # None THEN r
    ELSE Ok(Append(nodes.val, [date |-> pillar, df |-> r.val]))

\* The pillar-by-pillar solve: the first helper whose pillar cannot be
\* solved fails the whole bootstrap.
RECURSIVE SolveNodes(_, _, _, _)
SolveNodes(hs, nodes, evalDate, ref) ==
    IF hs = <<>> \/ nodes.exc # None THEN nodes
    ELSE SolveNodes(Tail(hs),
                    AddNode(nodes, HelperPillar(Head(hs), evalDate),
                            HelperImpliedDiscount(Head(hs), evalDate, ref)),
                    evalDate, ref)

BootstrapAlive(c, evalDate, alive) ==
    IF alive = <<>> THEN Raise("RuntimeError", "all instruments expired")
    ELSE IF ~DistinctPillars(alive, evalDate)
    THEN Raise("RuntimeError", "more than one instrument with pillar")
    ELSE SolveNodes(alive, Ok(<<[date |-> c.ref, df |-> ROne]>>), evalDate, c.ref)

\* The bootstrap of a piecewise curve: helpers are sorted by pillar,
\* expired ones dropped, equal pillars refused, then solved in order from
\* the reference date's discount factor 1.
Bootstrap(c, evalDate) ==
    BootstrapAlive(c, evalDate,
                   DropExpired(SortByPillar(c.helpers, evalDate), c.ref, evalDate))

\* ore.PiecewiseLogLinearDiscount(eval_date, helpers, day_count): the
\* constructor records the helpers (it needs at least one) and solves
\* nothing; the curve bootstraps when it is first read.
PiecewiseLogLinearDiscount(ref, helpers, dayCount) ==
    IF helpers = <<>> THEN Raise("RuntimeError", "no bootstrap helpers given")
    ELSE Ok([kind |-> "PiecewiseLogLinearDiscount", ref |-> ref, helpers |-> helpers,
             dayCount |-> dayCount, extrap |-> FALSE, calculated |-> FALSE,
             nodes |-> <<>>])

WithNodes(c, r) ==
    IF r.exc # None THEN r
    ELSE Ok([c EXCEPT !.calculated = TRUE, !.nodes = r.val])

\* The curve object after the calculation a read triggers, or the error.
Calculated(c, evalDate) ==
    IF c.kind # "PiecewiseLogLinearDiscount" THEN Ok(c)
    ELSE IF c.calculated THEN Ok(c)
    ELSE WithNodes(c, Bootstrap(c, evalDate))

CurveRef(c) ==
    CASE c.kind \in {"DiscountCurve", "ZeroCurve"} -> c.dates[1]
      [] OTHER -> c.ref

\* The dates a curve has nodes at; for a piecewise curve not yet
\* calculated, the dates at which its bootstrap would place them.
CurveNodeDates(c) ==
    CASE c.kind \in {"DiscountCurve", "ZeroCurve"} -> {c.dates[i] : i \in 1..Len(c.dates)}
      [] c.kind = "PiecewiseLogLinearDiscount" ->
            IF c.calculated THEN {c.nodes[i].date : i \in 1..Len(c.nodes)}
            ELSE {c.ref} \cup
                 {p \in {HelperPillar(c.helpers[i], evaluationDate) : i \in 1..Len(c.helpers)} :
                     p > c.ref}
      [] OTHER -> {c.ref}

CurveMaxDate(c) ==
    CHOOSE d \in CurveNodeDates(c) : \A e \in CurveNodeDates(c) : e <= d

\* The discount factor past the last node of a curve that extrapolates:
\* the last node's, continued over the days past it, kept symbolic.
Extrapolated(c, d) ==
    [from |-> NodeValue(c, CurveMaxDate(c)), days |-> d - CurveMaxDate(c)]

\* curve.discount(d) on a calculated curve.
Discount(c, d) ==
    IF d < CurveRef(c) THEN Raise("RuntimeError", "negative time")
    ELSE IF c.kind # "FlatForward" /\ d > CurveMaxDate(c)
    THEN IF ~c.extrap THEN Raise("RuntimeError", "date past max curve date")
         ELSE Ok(Extrapolated(c, d))
    ELSE Ok(NodeValue(c, d))

DiscountOf(c0, c, d) ==
    IF c.exc # None THEN [res |-> c, cv |-> c0]
    ELSE [res |-> Discount(c.val, d), cv |-> c.val]

\* handle.discount(d): the curve the handle is linked to, calculated first.
\* cv is the curve object as the read leaves it.
HandleDiscount(hd, d) ==
    IF hd = Null
    THEN [res |-> Raise("AttributeError", "NoneType has no attribute discount"),
          cv |-> Nothing]
    ELSE IF handles[hd].link = Null
    THEN [res |-> Raise("RuntimeError", "empty Handle cannot be dereferenced"),
          cv |-> Nothing]
    ELSE DiscountOf(HandleCurve(hd), Calculated(HandleCurve(hd), evaluationDate), d)

(***************************************************************************)
(* XCCYCurveBuilder.                                                       *)
(***************************************************************************)
SettlementDays == 2

\* The conventions set up without the day-count lookup.
SetupConventionsNoDayCount(m) ==
    LET dc == CalendarFactoryCreate(m.domestic_ccy.calendar_name)
        fc == CalendarFactoryCreate(m.foreign_ccy.calendar_name)
    IN  IF dc.exc # None THEN dc
        ELSE IF fc.exc # None THEN fc
        ELSE Ok([domestic_calendar |-> dc.val, foreign_calendar |-> fc.val,
                 joint_calendar |-> <<dc.val, fc.val>>,
                 foreign_day_count |-> m.foreign_ccy.day_count,
                 settlement_days |-> SettlementDays,
                 eval_date |-> m.valuation_date])

\* XCCYCurveBuilder._setup_conventions: the conventions in the order they
\* are created, the first unknown name raising.
SetupConventions(m) ==
    LET dc == CalendarFactoryCreate(m.domestic_ccy.calendar_name)
        fc == CalendarFactoryCreate(m.foreign_ccy.calendar_name)
        fd == DayCountFactoryCreate(m.foreign_ccy.day_count)
    IN  IF dc.exc # None THEN dc
        ELSE IF fc.exc # None THEN fc
        ELSE IF fd.exc # None THEN fd
        ELSE Ok([domestic_calendar |-> dc.val, foreign_calendar |-> fc.val,
                 joint_calendar |-> <<dc.val, fc.val>>,
                 foreign_day_count |-> fd.val,
                 settlement_days |-> SettlementDays,
                 eval_date |-> m.valuation_date])

\* XCCYCurveBuilder.__init__: the three input handles are stored, the
\* conventions set up (which also sets the process-wide evaluation date),
\* and the built curve starts as None.  An exception leaves no object.
Construct(b, dd, di, fi) ==
    /\ b \in pool
    /\ ~builder[b].alive
    /\ LET conv == SetupConventions(md)
       IN  IF conv.exc # None
           THEN /\ last' = Result("init", b, Nothing, conv)
                /\ UNCHANGED <<builder, evaluationDate>>
           ELSE /\ builder' = [builder EXCEPT ![b] =
                        [alive |-> TRUE,
                         domestic_discount_curve |-> dd,
                         domestic_index_curve |-> di,
                         foreign_index_curve |-> fi,
                         conv |-> conv.val,
                         foreign_xccy_curve |-> Null,
                         fx_spot_handle |-> Null]]
                /\ evaluationDate' = conv.val.eval_date
                /\ last' = Result("init", b, Nothing, Ok(Nothing))
    /\ UNCHANGED <<md, registry, pool, oisBuilder, files, curves, handles, quotes>>

UnknownTenorFormat == Raise("ValueError", "Unknown tenor format")

FxHelper(fwd, m, bd, spotQuote, period) ==
    IF ~period.ok THEN UnknownTenorFormat
    ELSE Ok([type |-> "fx",
             tenor |-> fwd.tenor,
             quote |-> RDiv(fwd.forward_points, RInt(PipsPerUnit)),
             spot |-> spotQuote,
             period |-> [n |-> period.n, unit |-> period.unit],
             settlementDays |-> bd.conv.settlement_days,
             isFxBaseCurrencyCollateralCurrency |-> is_fx_base_domestic(m),
             coll |-> bd.domestic_discount_curve])

SwapHelper(swap, bd, spotQuote, xccyHandle, period) ==
    IF ~period.ok THEN UnknownTenorFormat
    ELSE Ok([type |-> "swap",
             tenor |-> swap.tenor,
             quote |-> RDiv(swap.basis_spread, RInt(PipsPerUnit)),
             spot |-> spotQuote,
             period |-> [n |-> period.n, unit |-> period.unit],
             settlementDays |-> bd.conv.settlement_days,
             foreignDiscount |-> xccyHandle,
             foreignIndexCurve |-> bd.foreign_index_curve,
             coll |-> bd.domestic_discount_curve])

\* helpers.append(helper), unless the helper's construction raised.
AppendHelper(acc, r) ==
    IF r.exc # None THEN r ELSE Ok(Append(acc.val, r.val))

\* The FX-forward helpers of build(), in list order; the first malformed
\* tenor raises.
RECURSIVE FxHelpers(_, _, _, _, _)
FxHelpers(fwds, m, bd, spotQuote, acc) ==
    IF fwds = <<>> \/ acc.exc # None THEN acc
    ELSE FxHelpers(Tail(fwds), m, bd, spotQuote,
                   AppendHelper(acc, FxHelper(Head(fwds), m, bd, spotQuote,
                                              TenorToPeriod(Head(fwds).tenor))))

\* The basis-swap helpers of build(), in list order.
RECURSIVE SwapHelpers(_, _, _, _, _)
SwapHelpers(swaps, bd, spotQuote, xccyHandle, acc) ==
    IF swaps = <<>> \/ acc.exc # None THEN acc
    ELSE SwapHelpers(Tail(swaps), bd, spotQuote, xccyHandle,
                     AppendHelper(acc, SwapHelper(Head(swaps), bd, spotQuote, xccyHandle,
                                                  TenorToPeriod(Head(swaps).tenor))))

\* The two OIS indices build() creates between the two loops.
WithIndices(m, fx) ==
    LET domestic_index == OISIndexFactoryCreate(m.domestic_ccy.ois_index_name)
        foreign_index == OISIndexFactoryCreate(m.foreign_ccy.ois_index_name)
    IN  IF fx.exc # None THEN fx
        ELSE IF domestic_index.exc # None THEN domestic_index
        ELSE IF foreign_index.exc # None THEN foreign_index
        ELSE fx

\* The helper list build() hands to the bootstrapper: FX forwards, then
\* (the two OIS indices created) basis swaps, each in input order.
BuildHelpers(m, bd, spotQuote, xccyHandle) ==
    SwapHelpers(m.xccy_basis_swaps, bd, spotQuote, xccyHandle,
                WithIndices(m, FxHelpers(m.fx_forwards, m, bd, spotQuote, Ok(<<>>))))

BuildCurve(bd, helpers) ==
    IF helpers.exc # None THEN helpers
    ELSE PiecewiseLogLinearDiscount(bd.conv.eval_date, helpers.val,
                                    bd.conv.foreign_day_count)

MaxBuilds == 2

\* A build() that stores and returns the relinkable handle itself.
BuildWithExposed(b, fx_spot_quote, xccy_curve_handle, curve) ==
    IF curve.exc # None
    THEN /\ builder' = [builder EXCEPT ![b].fx_spot_handle = fx_spot_quote]
         /\ last' = Result("build", b, Nothing, curve)
         /\ UNCHANGED <<curves, handles>>
    ELSE /\ curves' = Append(curves, EnableExtrapolation(curve.val))
         /\ handles' = handles \o
                <<[link |-> Len(curves) + 1, relinkable |-> TRUE],
                  [link |-> Len(curves) + 1, relinkable |-> FALSE]>>
         /\ builder' = [builder EXCEPT
                          ![b].fx_spot_handle = fx_spot_quote,
                          ![b].foreign_xccy_curve = xccy_curve_handle]
         /\ last' = Result("build", b, Nothing, Ok([handle |-> xccy_curve_handle]))

\* A build() that, on a builder already built, puts the new curve in the
\* place of the old one and keeps the handle it stored.
BuildWithInPlace(b, fx_spot_quote, xccy_curve_handle, curve) ==
    IF curve.exc # None
    THEN /\ builder' = [builder EXCEPT ![b].fx_spot_handle = fx_spot_quote]
         /\ last' = Result("build", b, Nothing, curve)
         /\ UNCHANGED <<curves, handles>>
    ELSE IF builder[b].foreign_xccy_curve # Null
    THEN /\ curves' = [curves EXCEPT ![handles[builder[b].foreign_xccy_curve].link] =
                                        EnableExtrapolation(curve.val)]
         /\ builder' = [builder EXCEPT ![b].fx_spot_handle = fx_spot_quote]
         /\ last' = Result("build", b, Nothing,
                           Ok([handle |-> builder[b].foreign_xccy_curve]))
         /\ UNCHANGED handles
    ELSE /\ curves' = Append(curves, EnableExtrapolation(curve.val))
         /\ handles' = handles \o
                <<[link |-> Len(curves) + 1, relinkable |-> TRUE],
                  [link |-> Len(curves) + 1, relinkable |-> FALSE]>>
         /\ builder' = [builder EXCEPT
                          ![b].fx_spot_handle = fx_spot_quote,
                          ![b].foreign_xccy_curve = xccy_curve_handle + 1]
         /\ last' = Result("build", b, Nothing, Ok([handle |-> xccy_curve_handle + 1]))

\* The rest of build() once the curve constructor has returned or raised.
BuildWith(b, fx_spot_quote, xccy_curve_handle, curve) ==
    IF curve.exc # None
    THEN /\ builder' = [builder EXCEPT ![b].fx_spot_handle = fx_spot_quote]
         /\ last' = Result("build", b, Nothing, curve)
         /\ UNCHANGED <<curves, handles>>
    ELSE /\ curves' = Append(curves, EnableExtrapolation(curve.val))
         /\ handles' = handles \o
                <<[link |-> Len(curves) + 1, relinkable |-> TRUE],
                  [link |-> Len(curves) + 1, relinkable |-> FALSE]>>
         /\ builder' = [builder EXCEPT
                          ![b].fx_spot_handle = fx_spot_quote,
                          ![b].foreign_xccy_curve = xccy_curve_handle + 1]
         /\ last' = Result("build", b, Nothing, Ok([handle |-> xccy_curve_handle + 1]))

\* XCCYCurveBuilder.build: the FX spot quote is created and stored first;
\* then the helpers and the curve, either of which may raise; on success
\* the relinkable handle is linked to the curve and a second, plain handle
\* is stored and returned.
Build(b) ==
    /\ b \in pool
    /\ builder[b].alive
    /\ Len(quotes) < MaxBuilds
    /\ quotes' = Append(quotes, md.fx_spot)
    /\ BuildWith(b, Len(quotes) + 1, Len(handles) + 1,
                 BuildCurve(builder[b],
                            BuildHelpers(md, builder[b], Len(quotes) + 1, Len(handles) + 1)))
    /\ UNCHANGED <<md, registry, evaluationDate, pool, oisBuilder, files>>

\* The builder object as __init__ leaves it.
NewBuilder(conv, dd, di, fi) ==
    [alive |-> TRUE,
     domestic_discount_curve |-> dd,
     domestic_index_curve |-> di,
     foreign_index_curve |-> fi,
     conv |-> conv,
     foreign_xccy_curve |-> Null,
     fx_spot_handle |-> Null]

\* The builder object as a build() that returns leaves it.
BuiltBuilder(bd, fx_spot_quote, xccy_curve) ==
    [bd EXCEPT !.fx_spot_handle = fx_spot_quote, !.foreign_xccy_curve = xccy_curve]

\* A result dictionary with the two index-curve entries exchanged.
XccyCurveDictSwapped(b, bd, xccy_curve) ==
    [domestic_discount |-> bd.domestic_discount_curve,
     domestic_index |-> bd.foreign_index_curve,
     foreign_index |-> bd.domestic_index_curve,
     foreign_xccy |-> xccy_curve,
     fx_spot |-> bd.fx_spot_handle,
     xccy_builder |-> b]

\* The dictionary build_xccy_curve returns: its three arguments, the
\* handle build() returned, the builder's FX spot handle, the builder.
XccyCurveDict(b, bd, xccy_curve) ==
    [domestic_discount |-> bd.domestic_discount_curve,
     domestic_index |-> bd.domestic_index_curve,
     foreign_index |-> bd.foreign_index_curve,
     foreign_xccy |-> xccy_curve,
     fx_spot |-> bd.fx_spot_handle,
     xccy_builder |-> b]

XccyCurveArgs(bd) ==
    [domestic_discount_curve |-> bd.domestic_discount_curve,
     domestic_index_curve |-> bd.domestic_index_curve,
     foreign_index_curve |-> bd.foreign_index_curve]

\* build_xccy_curve from xccy_builder.build() on: a build() that raises
\* leaves the caller no builder.
BuildXccyCurveReturns(b, bd, fx_spot_quote, xccy_curve_handle, curve) ==
    IF curve.exc # None
    THEN /\ last' = Result("build_xccy_curve", b, XccyCurveArgs(bd), curve)
         /\ UNCHANGED <<builder, curves, handles>>
    ELSE /\ curves' = Append(curves, EnableExtrapolation(curve.val))
         /\ handles' = handles \o
                <<[link |-> Len(curves) + 1, relinkable |-> TRUE],
                  [link |-> Len(curves) + 1, relinkable |-> FALSE]>>
         /\ builder' = [builder EXCEPT ![b] =
                            BuiltBuilder(bd, fx_spot_quote, xccy_curve_handle + 1)]
         /\ last' = Result("build_xccy_curve", b, XccyCurveArgs(bd),
                           Ok(XccyCurveDict(b, BuiltBuilder(bd, fx_spot_quote,
                                                            xccy_curve_handle + 1),
                                            xccy_curve_handle + 1)))

BuildXccyCurveWith(b, bd, fx_spot_quote, xccy_curve_handle) ==
    BuildXccyCurveReturns(b, bd, fx_spot_quote, xccy_curve_handle,
                          BuildCurve(bd, BuildHelpers(md, bd, fx_spot_quote,
                                                      xccy_curve_handle)))

\* build_xccy_curve from the constructor on.
BuildXccyCurveFrom(b, dd, di, fi, conv) ==
    IF conv.exc # None
    THEN /\ last' = Result("build_xccy_curve", b,
                           [domestic_discount_curve |-> dd, domestic_index_curve |-> di,
                            foreign_index_curve |-> fi], conv)
         /\ UNCHANGED <<builder, curves, handles, quotes>>
    ELSE /\ quotes' = Append(quotes, md.fx_spot)
         /\ BuildXccyCurveWith(b, NewBuilder(conv.val, dd, di, fi),
                               Len(quotes) + 1, Len(handles) + 1)

\* build_xccy_curve: the evaluation date is set to the valuation date, a
\* builder constructed and built, and the dictionary returned.
BuildXccyCurve(b, dd, di, fi) ==
    /\ b \in pool
    /\ ~builder[b].alive
    /\ Len(quotes) < MaxBuilds
    /\ evaluationDate' = md.valuation_date
    /\ BuildXccyCurveFrom(b, dd, di, fi, SetupConventions(md))
    /\ UNCHANGED <<md, registry, pool, oisBuilder, files>>

NotBuilt == Raise("ValueError", "XCCY curve not built. Call build() first.")

\* A builder that takes itself for unbuilt until build() has stored the
\* FX spot handle.
SpotHandleIsNone(bd) == bd.fx_spot_handle = Null

\* "self.foreign_xccy_curve is None".
CurveIsNone(bd) == bd.foreign_xccy_curve = Null

\* The dates a builder's curve is read at: its reference date and the
\* nodes of the built curve.
QueryDates(b) ==
    IF ~builder[b].alive THEN {}
    ELSE IF builder[b].foreign_xccy_curve = Null THEN {builder[b].conv.eval_date}
    ELSE CurveNodeDates(HandleCurve(builder[b].foreign_xccy_curve))

\* A read of the built curve through its handle leaves the curve calculated.
ReadXccy(b, d) == HandleDiscount(builder[b].foreign_xccy_curve, d)

AfterRead(b, r) ==
    IF r.cv = Nothing THEN UNCHANGED curves
    ELSE curves' = [curves EXCEPT ![handles[builder[b].foreign_xccy_curve].link] = r.cv]

DiscountFactorReturns(b, d, r) ==
    /\ AfterRead(b, r)
    /\ last' = Result("get_discount_factor", b, [date |-> d], r.res)

\* XCCYCurveBuilder.get_discount_factor.
GetDiscountFactor(b, d) ==
    /\ b \in pool
    /\ builder[b].alive
    /\ d \in QueryDates(b)
    /\ IF CurveIsNone(builder[b])
       THEN /\ last' = Result("get_discount_factor", b, [date |-> d], NotBuilt)
            /\ UNCHANGED curves
       ELSE DiscountFactorReturns(b, d, ReadXccy(b, d))
    /\ UNCHANGED <<md, registry, evaluationDate, pool, oisBuilder, files, builder, handles, quotes>>

\* The zero rate is derived from the discount factor and is kept as that
\* discount factor with its compounding.
ZeroRateOf(res, compounding) ==
    IF res.exc # None THEN res
    ELSE Ok([df |-> res.val,
             comp |-> IF compounding = "continuous" THEN "Continuous" ELSE "Annual"])

ZeroRateReturns(b, d, compounding, r) ==
    /\ AfterRead(b, r)
    /\ last' = Result("get_zero_rate", b, [date |-> d], ZeroRateOf(r.res, compounding))

\* XCCYCurveBuilder.get_zero_rate.
GetZeroRate(b, d, compounding) ==
    /\ b \in pool
    /\ builder[b].alive
    /\ d \in QueryDates(b)
    /\ IF CurveIsNone(builder[b])
       THEN /\ last' = Result("get_zero_rate", b, [date |-> d], NotBuilt)
            /\ UNCHANGED curves
       ELSE ZeroRateReturns(b, d, compounding, ReadXccy(b, d))
    /\ UNCHANGED <<md, registry, evaluationDate, pool, oisBuilder, files, builder, handles, quotes>>

\* F = S * (DF_domestic / DF_foreign_xccy), as get_implied_fx_forward
\* computes it.
ImpliedFxForward(m, df_domestic, df_foreign) ==
    RMul(m.fx_spot, RDiv(df_domestic, df_foreign))

ImpliedOf(m, df_domestic, res) ==
    IF res.exc # None THEN res
    ELSE Ok([fwd |-> ImpliedFxForward(m, df_domestic, res.val)])

\* The built curve is read only if the domestic read before it returned.
ImpliedFxForwardReturns(b, d, dom, r) ==
    IF dom.exc # None
    THEN /\ last' = Result("get_implied_fx_forward", b, [date |-> d], dom)
         /\ UNCHANGED curves
    ELSE /\ AfterRead(b, r)
         /\ last' = Result("get_implied_fx_forward", b, [date |-> d],
                           ImpliedOf(md, dom.val, r.res))

\* XCCYCurveBuilder.get_implied_fx_forward.
GetImpliedFxForward(b, d) ==
    /\ b \in pool
    /\ builder[b].alive
    /\ d \in QueryDates(b)
    /\ IF CurveIsNone(builder[b])
       THEN /\ last' = Result("get_implied_fx_forward", b, [date |-> d], NotBuilt)
            /\ UNCHANGED curves
       ELSE ImpliedFxForwardReturns(b, d,
                HandleDiscount(builder[b].domestic_discount_curve, d).res,
                ReadXccy(b, d))
    /\ UNCHANGED <<md, registry, evaluationDate, pool, oisBuilder, files, builder, handles, quotes>>

(***************************************************************************)
(* The curve loaders (curve_loaders.py).  A file is its parsed content:    *)
(* whether it carries a reference date, that date, and its point rows.     *)
(***************************************************************************)
RowDates(rows) == [i \in 1..Len(rows) |-> rows[i].date]
RowDfs(rows) == [i \in 1..Len(rows) |-> rows[i].df]
RowZrs(rows) == [i \in 1..Len(rows) |-> rows[i].zr]

\* The curve either loader creates from the reference date and the rows.
\* all_dates = [ref_date] + dates, in either mode.
AllDates(ref_date, rows) == <<ref_date>> \o RowDates(rows)

\* The reference date load_curve_from_csv settles on for a file that has
\* the metadata row or a point: the row's date, or else the first point's.
CsvRefDate(file) == IF file.has_ref THEN file.ref ELSE file.rows[1].date

LoadedCurve(ref_date, rows, use_discount_factors) ==
    IF use_discount_factors
    THEN DiscountCurve(AllDates(ref_date, rows), <<ROne>> \o RowDfs(rows))
    ELSE ZeroCurve(AllDates(ref_date, rows),
                   <<IF rows # <<>> THEN rows[1].zr ELSE RInt(0)>> \o RowZrs(rows))

\* The end of either loader: the constructor raises, or extrapolation is
\* enabled and the curve object returned to the caller.
LoadWith(op, use_discount_factors, curve) ==
    IF curve.exc # None
    THEN last' = Result(op, None, [use_discount_factors |-> use_discount_factors], curve)
    ELSE last' = Result(op, None, [use_discount_factors |-> use_discount_factors],
                        Ok(EnableExtrapolation(curve.val)))

\* load_curve_from_csv: the reference date is the metadata row's, or else
\* the first point's date; with neither, None is assigned to the
\* evaluation date, which raises.
LoadCurveFromCsv(file, use_discount_factors) ==
    /\ IF ~file.has_ref /\ file.rows = <<>>
       THEN /\ last' = Result("load_curve_from_csv", None,
                              [use_discount_factors |-> use_discount_factors],
                              Raise("TypeError", "evaluationDate"))
            /\ UNCHANGED evaluationDate
       ELSE /\ evaluationDate' = CsvRefDate(file)
            /\ LoadWith("load_curve_from_csv", use_discount_factors,
                        LoadedCurve(CsvRefDate(file), file.rows, use_discount_factors))
    /\ UNCHANGED <<md, registry, pool, oisBuilder, files, builder, curves, handles, quotes>>

\* load_curve_from_json: the reference date is required.
LoadCurveFromJson(file, use_discount_factors) ==
    /\ IF ~file.has_ref
       THEN /\ last' = Result("load_curve_from_json", None,
                              [use_discount_factors |-> use_discount_factors],
                              Raise("KeyError", "reference_date"))
            /\ UNCHANGED evaluationDate
       ELSE /\ evaluationDate' = file.ref
            /\ LoadWith("load_curve_from_json", use_discount_factors,
                        LoadedCurve(file.ref, file.rows, use_discount_factors))
    /\ UNCHANGED <<md, registry, pool, oisBuilder, files, builder, curves, handles, quotes>>

(***************************************************************************)
(* Inputs.                                                                 *)
(***************************************************************************)
T1M == <<"1", "M">>
T3M == <<"3", "M">>
T12M == <<"1", "2", "M">>
T1Y == <<"1", "Y">>
T5Y == <<"5", "Y">>
T3D == <<"3", "D">>
TXY == <<"X", "Y">>

USD == CurrencyConfig("USD", "SOFR", "US-FederalReserve", "Actual360")
GBP == CurrencyConfig("GBP", "SONIA", "UK-Exchange", "Actual365Fixed")
JPY == CurrencyConfig("JPY", "TONAR", "Japan", "Actual365Fixed")

EUR == CurrencyConfig("EUR", "ESTR", "TARGET", "Actual360")

T1W == <<"1", "W">>
T2W == <<"2", "W">>
T2M == <<"2", "M">>
T6M == <<"6", "M">>
T9M == <<"9", "M">>
T2Y == <<"2", "Y">>
T3Y == <<"3", "Y">>
T4Y == <<"4", "Y">>
T7Y == <<"7", "Y">>
T10Y == <<"1", "0", "Y">>
T15Y == <<"1", "5", "Y">>
T20Y == <<"2", "0", "Y">>
T30Y == <<"3", "0", "Y">>

\* date(2024, 1, 15), the day the day numbers count from.
DefaultValuationDate == 0

\* MarketDataFactory.create_gbpusd.
create_gbpusd(valuation_date) ==
    XCCYMarketData(
        IF valuation_date = None THEN DefaultValuationDate ELSE valuation_date,
        USD, GBP, Rat(12750, 10000),
        <<FXForwardQuote(T1W, Rat(-5, 2)), FXForwardQuote(T2W, RInt(-5)),
          FXForwardQuote(T1M, RInt(-12)), FXForwardQuote(T2M, RInt(-24)),
          FXForwardQuote(T3M, RInt(-38)), FXForwardQuote(T6M, RInt(-78)),
          FXForwardQuote(T9M, RInt(-115)), FXForwardQuote(T1Y, RInt(-155))>>,
        <<XCCYBasisSwapQuote(T2Y, Rat(-25, 2)), XCCYBasisSwapQuote(T3Y, RInt(-15)),
          XCCYBasisSwapQuote(T4Y, Rat(-33, 2)), XCCYBasisSwapQuote(T5Y, Rat(-35, 2)),
          XCCYBasisSwapQuote(T7Y, RInt(-18)), XCCYBasisSwapQuote(T10Y, RInt(-17)),
          XCCYBasisSwapQuote(T15Y, RInt(-15)), XCCYBasisSwapQuote(T20Y, RInt(-13)),
          XCCYBasisSwapQuote(T30Y, RInt(-10))>>,
        None)

\* MarketDataFactory.create_eurusd.
create_eurusd(valuation_date) ==
    XCCYMarketData(
        IF valuation_date = None THEN DefaultValuationDate ELSE valuation_date,
        USD, EUR, Rat(10850, 10000),
        <<FXForwardQuote(T1W, Rat(3, 2)), FXForwardQuote(T2W, RInt(3)),
          FXForwardQuote(T1M, RInt(7)), FXForwardQuote(T2M, RInt(14)),
          FXForwardQuote(T3M, RInt(22)), FXForwardQuote(T6M, RInt(45)),
          FXForwardQuote(T9M, RInt(68)), FXForwardQuote(T1Y, RInt(92))>>,
        <<XCCYBasisSwapQuote(T2Y, RInt(-8)), XCCYBasisSwapQuote(T3Y, RInt(-10)),
          XCCYBasisSwapQuote(T4Y, Rat(-23, 2)), XCCYBasisSwapQuote(T5Y, Rat(-25, 2)),
          XCCYBasisSwapQuote(T7Y, RInt(-13)), XCCYBasisSwapQuote(T10Y, RInt(-12)),
          XCCYBasisSwapQuote(T15Y, RInt(-10)), XCCYBasisSwapQuote(T20Y, Rat(-17, 2)),
          XCCYBasisSwapQuote(T30Y, RInt(-7))>>,
        None)

\* MarketDataFactory.create_usdjpy: USD is both the domestic currency and
\* the FX base.
create_usdjpy(valuation_date) ==
    XCCYMarketData(
        IF valuation_date = None THEN DefaultValuationDate ELSE valuation_date,
        USD, JPY, Rat(14850, 100),
        <<FXForwardQuote(T1W, RInt(-8)), FXForwardQuote(T2W, RInt(-16)),
          FXForwardQuote(T1M, RInt(-35)), FXForwardQuote(T2M, RInt(-72)),
          FXForwardQuote(T3M, RInt(-110)), FXForwardQuote(T6M, RInt(-225)),
          FXForwardQuote(T9M, RInt(-340)), FXForwardQuote(T1Y, RInt(-460))>>,
        <<XCCYBasisSwapQuote(T2Y, RInt(-25)), XCCYBasisSwapQuote(T3Y, RInt(-28)),
          XCCYBasisSwapQuote(T4Y, RInt(-30)), XCCYBasisSwapQuote(T5Y, RInt(-32)),
          XCCYBasisSwapQuote(T7Y, RInt(-33)), XCCYBasisSwapQuote(T10Y, RInt(-30)),
          XCCYBasisSwapQuote(T15Y, RInt(-25)), XCCYBasisSwapQuote(T20Y, RInt(-22)),
          XCCYBasisSwapQuote(T30Y, RInt(-18))>>,
        "USD")

\* The three factory products at the default valuation date.
FactoryData == {create_gbpusd(None), create_eurusd(None), create_usdjpy(None)}

\* A currency configuration with at most one name no registry knows.
Misnamed(cfg) ==
    {cfg,
     [cfg EXCEPT !.ois_index_name = "LIBOR"],
     [cfg EXCEPT !.calendar_name = "Mars"],
     [cfg EXCEPT !.day_count = "Actual366"]}

ConfigPairs ==
    {<<d, GBP>> : d \in Misnamed(USD)} \cup {<<USD, f>> : f \in Misnamed(GBP)}

\* FX-forward quotes: two sound ones, a malformed tenor, and points that
\* cancel the spot (an outright forward of zero).
FwdQuotes ==
    {FXForwardQuote(T3M, RInt(-38)),
     FXForwardQuote(T12M, RInt(-155)),
     FXForwardQuote(T3D, RInt(-38)),
     FXForwardQuote(T3M, RInt(-12750))}

SwapQuotes ==
    {XCCYBasisSwapQuote(T1Y, Rat(-25, 2)),
     XCCYBasisSwapQuote(T5Y, Rat(-35, 2)),
     XCCYBasisSwapQuote(TXY, Rat(-35, 2))}

MaxQuotes == 2

SeqsUpTo(S, n) == UNION {[1..k -> S] : k \in 0..n}

QuoteLists ==
    {<<f, w>> \in SeqsUpTo(FwdQuotes, MaxQuotes) \X SeqsUpTo(SwapQuotes, MaxQuotes) :
        Len(f) + Len(w) <= MaxQuotes}

ValuationDates == {0}

\* The system date, which the evaluation date defaults to.
Todays == {7}
FxSpot == Rat(12750, 10000)

MarketDataInputs ==
    {XCCYMarketData(vd, cp[1], cp[2], FxSpot, ql[1], ql[2], base) :
        vd \in ValuationDates, cp \in ConfigPairs, ql \in QuoteLists,
        base \in {None, "USD"}}

\* MarketDataFactory.create_gbpusd-like data: the FX base is the foreign
\* currency.
GbpUsd(fwds, swaps) == XCCYMarketData(0, USD, GBP, FxSpot, fwds, swaps, None)

\* create_flat_forward_curve.
create_flat_forward_curve(valuation_date, rate) ==
    EnableExtrapolation(FlatForward(valuation_date, rate))

BuilderNames == {"A", "B"}

\* NoFile is a path at which nothing has been written.
\* The file path the savers and the loaders are given.
CurvePath == "curve.out"
Paths == {CurvePath}
NoFile == [exists |-> FALSE]

NoCall == Result("none", None, Nothing, Ok(Nothing))

\* The process before any builder exists: a market-data object, and two
\* flat input curves (domestic, foreign index) behind their handles.
InitWith(m) ==
    /\ md = m
    /\ registry = Registry0
    /\ evaluationDate \in Todays
    /\ builder = [b \in BuilderNames |-> NoBuilder]
    /\ oisBuilder = NoBuilder
    /\ curves = <<create_flat_forward_curve(m.valuation_date, Rat(5, 100)),
                  create_flat_forward_curve(m.valuation_date, Rat(4, 100))>>
    /\ handles = <<[link |-> 1, relinkable |-> FALSE], [link |-> 2, relinkable |-> FALSE]>>
    /\ quotes = <<>>
    /\ files = [p \in Paths |-> NoFile]
    /\ last = NoCall

Compoundings == {"continuous", "annual"}

\* The days on which a helper's pillar can fall, and the valuation dates.
EvaluationDates == ValuationDates \cup Todays \cup {30, 60}
QueryDays ==
    ValuationDates \cup
    {e + SettlementDays + PeriodDays(TenorToPeriod(t)) :
        e \in EvaluationDates, t \in {T3M, T12M, T5Y}}

(***************************************************************************)
(* OISCurveBuilder.                                                        *)
(***************************************************************************)
MaxCurves == 4

\* The calendar and the day count __init__ creates, in that order.
OisConventions(ccy_config) ==
    IF CalendarFactoryCreate(ccy_config.calendar_name).exc # None
    THEN CalendarFactoryCreate(ccy_config.calendar_name)
    ELSE IF DayCountFactoryCreate(ccy_config.day_count).exc # None
    THEN DayCountFactoryCreate(ccy_config.day_count)
    ELSE Ok([calendar |-> CalendarFactoryCreate(ccy_config.calendar_name).val,
             day_count |-> DayCountFactoryCreate(ccy_config.day_count).val])

NewOisBuilder(eval_date, ccy_config, ois_rates, conv) ==
    [alive |-> TRUE, eval_date |-> eval_date, ccy_config |-> ccy_config,
     ois_rates |-> ois_rates, settlement_days |-> SettlementDays,
     calendar |-> conv.calendar, day_count |-> conv.day_count]

OisInitWith(eval_date, ccy_config, ois_rates, conv) ==
    IF conv.exc # None
    THEN /\ last' = Result("OISCurveBuilder.__init__", None, Nothing, conv)
         /\ UNCHANGED oisBuilder
    ELSE /\ oisBuilder' = NewOisBuilder(eval_date, ccy_config, ois_rates, conv.val)
         /\ last' = Result("OISCurveBuilder.__init__", None, Nothing, Ok(Nothing))

\* OISCurveBuilder.__init__(eval_date, ccy_config, ois_rates).
OisInit(eval_date, ccy_config, ois_rates) ==
    /\ OisInitWith(eval_date, ccy_config, ois_rates, OisConventions(ccy_config))
    /\ UNCHANGED <<md, registry, evaluationDate, pool, files, builder, curves, handles, quotes>>

\* ore.OISRateHelper(settlement_days, period, quote, index) for one
\* (tenor, rate) of the list.
OisHelper(tenor_rate, bd, index, period) ==
    IF ~period.ok THEN UnknownTenorFormat
    ELSE Ok([type |-> "ois",
             tenor |-> tenor_rate.tenor,
             quote |-> tenor_rate.rate,
             period |-> [n |-> period.n, unit |-> period.unit],
             settlementDays |-> bd.settlement_days,
             index |-> index])

\* The helpers of build(), in list order; the first malformed tenor raises.
RECURSIVE OisHelpers(_, _, _, _)
OisHelpers(rates, bd, index, acc) ==
    IF rates = <<>> \/ acc.exc # None THEN acc
    ELSE OisHelpers(Tail(rates), bd, index,
                    AppendHelper(acc, OisHelper(Head(rates), bd, index,
                                                TenorToPeriod(Head(rates).tenor))))

OisCurveOf(bd, helpers) ==
    IF helpers.exc # None THEN helpers
    ELSE PiecewiseLogLinearDiscount(bd.eval_date, helpers.val, bd.day_count)

\* The index is created first, then the helpers, then the curve.
OisBuildCurve(bd, index) ==
    IF index.exc # None THEN index
    ELSE OisCurveOf(bd, OisHelpers(bd.ois_rates, bd, index.val, Ok(<<>>)))

\* The end of build(): extrapolation is enabled on the new curve and a
\* handle to it is returned.
OisBuildWith(curve) ==
    IF curve.exc # None
    THEN /\ last' = Result("OISCurveBuilder.build", None, Nothing, curve)
         /\ UNCHANGED <<curves, handles>>
    ELSE /\ curves' = Append(curves, EnableExtrapolation(curve.val))
         /\ handles' = Append(handles, [link |-> Len(curves) + 1, relinkable |-> FALSE])
         /\ last' = Result("OISCurveBuilder.build", None, Nothing,
                           Ok([handle |-> Len(handles) + 1]))

\* OISCurveBuilder.build().
OisBuild ==
    /\ oisBuilder.alive
    /\ Len(curves) < MaxCurves
    /\ OisBuildWith(OisBuildCurve(oisBuilder,
                                  OISIndexFactoryCreate(oisBuilder.ccy_config.ois_index_name)))
    /\ UNCHANGED <<md, registry, evaluationDate, pool, files, builder, oisBuilder, quotes>>

(***************************************************************************)
(* Handles and curves (curve_converters.py).                               *)
(***************************************************************************)
MaxHandles == 3

\* quantlib_curve_to_relinkable_handle: a new relinkable handle, linked to
\* the curve if one is given.
QuantlibCurveToRelinkableHandle(ql_curve) ==
    /\ Len(handles) < MaxHandles
    /\ ql_curve \in {Null} \cup (1..Len(curves))
    /\ handles' = Append(handles, [link |-> ql_curve, relinkable |-> TRUE])
    /\ last' = Result("quantlib_curve_to_relinkable_handle", None,
                      [ql_curve |-> ql_curve], Ok([handle |-> Len(handles) + 1]))
    /\ UNCHANGED <<md, registry, evaluationDate, pool, oisBuilder, files, builder, curves, quotes>>

\* The library's own error for an empty handle, not converted.
EmptyHandleError == Raise("RuntimeError", "empty Handle cannot be dereferenced")

HandleIsEmpty == Raise("ValueError", "Handle is empty - not linked to any curve")

\* ore_handle_to_curve: the curve the handle is linked to; ValueError for
\* an empty handle, whether currentLink() returns None or raises.
ore_handle_to_curve(hd) ==
    IF handles[hd].link = Null THEN HandleIsEmpty
    ELSE Ok([curve |-> handles[hd].link])

OreHandleToCurve(hd) ==
    /\ hd \in 1..Len(handles)
    /\ last' = Result("ore_handle_to_curve", None, [handle |-> hd], ore_handle_to_curve(hd))
    /\ UNCHANGED <<md, registry, evaluationDate, pool, oisBuilder, files, builder, curves, handles, quotes>>

\* The dates a handle's curve is read at: the nodes of the curve and a
\* date a year past the last of them.
HandleQueryDates(hd) ==
    IF handles[hd].link = Null THEN {DefaultValuationDate}
    ELSE CurveNodeDates(HandleCurve(hd)) \cup {CurveMaxDate(HandleCurve(hd)) + 360}

AfterHandleRead(hd, r) ==
    IF r.cv = Nothing THEN UNCHANGED curves
    ELSE curves' = [curves EXCEPT ![handles[hd].link] = r.cv]

ListOf(res) ==
    IF res.exc # None THEN res ELSE Ok([list |-> <<res.val>>])

DiscountFactorsReturn(hd, d, r) ==
    /\ AfterHandleRead(hd, r)
    /\ last' = Result("get_discount_factors", None, [handle |-> hd, date |-> d],
                      ListOf(r.res))

\* get_discount_factors(handle, [d]).
GetDiscountFactors(hd, d) ==
    /\ hd \in 1..Len(handles)
    /\ d \in HandleQueryDates(hd)
    /\ DiscountFactorsReturn(hd, d, HandleDiscount(hd, d))
    /\ UNCHANGED <<md, registry, evaluationDate, pool, files, builder, oisBuilder, handles, quotes>>

ZeroRatesReturn(hd, d, r) ==
    /\ AfterHandleRead(hd, r)
    /\ last' = Result("get_zero_rates", None, [handle |-> hd, date |-> d],
                      ListOf(ZeroRateOf(r.res, "continuous")))

\* get_zero_rates(handle, [d]), day count and compounding defaulted.
GetZeroRates(hd, d) ==
    /\ hd \in 1..Len(handles)
    /\ d \in HandleQueryDates(hd)
    /\ ZeroRatesReturn(hd, d, HandleDiscount(hd, d))
    /\ UNCHANGED <<md, registry, evaluationDate, pool, files, builder, oisBuilder, handles, quotes>>

(***************************************************************************)
(* The curve savers (curve_savers.py).  Calendar dates follow the day      *)
(* arithmetic of the periods: months of 30 days, years of 360.             *)
(***************************************************************************)
EpochYear == 2024
EpochDayOfYear == 14

\* _ore_date_to_iso: the year, month and day of an ISO date string.
OreDateToIso(d) ==
    [year |-> EpochYear + (d + EpochDayOfYear) \div 360,
     month |-> ((d + EpochDayOfYear) % 360) \div 30 + 1,
     day |-> ((d + EpochDayOfYear) % 30) + 1]

\* _iso_to_ore_date.
IsoToOreDate(iso) ==
    (iso.year - EpochYear) * 360 + (iso.month - 1) * 30 + (iso.day - 1) - EpochDayOfYear

\* ore.Period(tenor): a count and a unit of days, weeks, months or years;
\* ok = FALSE stands for the RuntimeError of the parser.
OrePeriod(tenor) ==
    IF EndsWith(tenor, "D")
    THEN LET k == PyInt(SubSeq(tenor, 1, Len(tenor) - 1))
         IN  IF k.ok THEN [ok |-> TRUE, n |-> k.val, unit |-> "D"]
             ELSE [ok |-> FALSE, n |-> 0, unit |-> "?"]
    ELSE TenorToPeriod(tenor)

\* date + period.
DatePlus(d, p) == IF p.unit = "D" THEN d + p.n ELSE d + PeriodDays(p)

DigitChar(k) ==
    CASE k = 0 -> "0" [] k = 1 -> "1" [] k = 2 -> "2" [] k = 3 -> "3" [] k = 4 -> "4"
      [] k = 5 -> "5" [] k = 6 -> "6" [] k = 7 -> "7" [] k = 8 -> "8" [] k = 9 -> "9"

\* f"{y}Y" for a year count below 100.
YearTenor(y) ==
    IF y < 10 THEN <<DigitChar(y), "Y">>
    ELSE <<DigitChar(y \div 10), DigitChar(y % 10), "Y">>

MaxYears == 50

\* The default tenor grid of extract_curve_points.
DefaultTenors(max_years) ==
    <<T1W, T2W, T1M, T2M, T3M, T6M, T9M>> \o
    [y \in 1..((IF max_years + 1 < 51 THEN max_years + 1 ELSE 51) - 1) |-> YearTenor(y)]

\* The continuously compounded zero rate to a date, kept as the discount
\* factor it is derived from and the time in days.
ZeroRateContinuous(df, days) == [df |-> df, days |-> days, comp |-> "Continuous"]

\* One pass of the loop of extract_curve_points: a tenor whose period or
\* discount factor raises RuntimeError is skipped (kept = FALSE), any
\* other appends a point.
Skipped == [kept |-> FALSE]

PointAt(target_date, ref_date, r) ==
    IF r.exc # None THEN Skipped
    ELSE [kept |-> TRUE,
          date |-> OreDateToIso(target_date),
          df |-> r.val,
          zero |-> ZeroRateContinuous(r.val, target_date - ref_date)]

PointOf(c, ref_date, period) ==
    IF ~period.ok THEN Skipped
    ELSE PointAt(DatePlus(ref_date, period), ref_date,
                 Discount(c, DatePlus(ref_date, period)))

Kept(pass) == pass.kept

PointsKept(passes) ==
    [i \in 1..Len(passes) |->
        [date |-> passes[i].date, df |-> passes[i].df, zero |-> passes[i].zero]]

\* The index of the first pass that appended nothing, or one past the last.
FirstSkipped(passes) ==
    IF \A i \in 1..Len(passes) : passes[i].kept THEN Len(passes) + 1
    ELSE CHOOSE i \in 1..Len(passes) :
            ~passes[i].kept /\ \A j \in 1..(i - 1) : passes[j].kept

\* A loop that ends at the first tenor that fails.
PointsUntilFailure(c, ref_date, tenors) ==
    PointsKept(SubSeq([i \in 1..Len(tenors) |-> PointOf(c, ref_date, OrePeriod(tenors[i]))],
                      1,
                      FirstSkipped([i \in 1..Len(tenors) |->
                                       PointOf(c, ref_date, OrePeriod(tenors[i]))]) - 1))

\* The points of the tenors, in the order of the tenors.
PointsFrom(c, ref_date, tenors) ==
    PointsKept(SelectSeq([i \in 1..Len(tenors) |->
                             PointOf(c, ref_date, OrePeriod(tenors[i]))], Kept))

\* The points of a curve whose calculation cv has returned or raised (in
\* which case every discount() raises and every tenor is skipped).
PointsOf(cv, ref_date, tenors) ==
    IF cv.exc # None THEN <<>>
    ELSE PointsFrom(cv.val, ref_date, tenors)

TenorsOrDefault(tenors) == IF tenors = Nothing THEN DefaultTenors(MaxYears) ELSE tenors.list

\* extract_curve_points(handle, tenors).
extract_curve_points(hd, tenors) ==
    IF ore_handle_to_curve(hd).exc # None THEN ore_handle_to_curve(hd)
    ELSE Ok([points |-> PointsOf(Calculated(HandleCurve(hd), evaluationDate),
                                 CurveRef(HandleCurve(hd)), TenorsOrDefault(tenors))])

\* The curve object as the reads of a saver or of extract_curve_points
\* leave it.
AfterPoints(hd, cv) ==
    IF cv.exc # None THEN UNCHANGED curves
    ELSE curves' = [curves EXCEPT ![handles[hd].link] = cv.val]

\* The curves of this model are read at their nodes only (a flat curve at
\* any date): a handle's curve has a point at each of the tenors' dates
\* that lies in its range.
ReadableAt(c, tenors) ==
    \/ c.kind = "FlatForward"
    \/ \A i \in 1..Len(tenors) :
          OrePeriod(tenors[i]).ok =>
              \/ DatePlus(CurveRef(c), OrePeriod(tenors[i])) < CurveRef(c)
              \/ DatePlus(CurveRef(c), OrePeriod(tenors[i])) \in CurveNodeDates(c)

Readable(hd, tenors) ==
    /\ hd \in 1..Len(handles)
    /\ handles[hd].link # Null => ReadableAt(HandleCurve(hd), TenorsOrDefault(tenors))

ExtractCurvePoints(hd, tenors) ==
    /\ Readable(hd, tenors)
    /\ last' = Result("extract_curve_points", None, [handle |-> hd, tenors |-> tenors],
                      extract_curve_points(hd, tenors))
    /\ IF handles[hd].link = Null THEN UNCHANGED curves
       ELSE AfterPoints(hd, Calculated(HandleCurve(hd), evaluationDate))
    /\ UNCHANGED <<md, registry, evaluationDate, pool, oisBuilder, files, builder, handles, quotes>>

\* The rows save_curve_to_csv writes after the header.
CsvRows(points) ==
    [i \in 1..Len(points) |->
        [date |-> points[i].date,
         discount_factor |-> Format15f(points[i].df),
         zero_rate |-> [places |-> 10, of |-> points[i].zero]]]

\* The points json.dump writes: a float is written so that it reads back
\* as itself.
JsonPoints(points) ==
    [i \in 1..Len(points) |->
        [date |-> points[i].date,
         discount_factor |-> points[i].df,
         zero_rate |-> points[i].zero]]

CurveFile(format, ref_date, rows) ==
    [exists |-> TRUE, format |-> format, curve_name |-> "curve",
     reference_date |-> OreDateToIso(ref_date),
     day_count |-> "Actual365Fixed", compounding |-> "Continuous",
     rows |-> rows]

\* The end of either saver: the file is written once the points have
\* been extracted.
SaveWith(op, hd, tenors, path, content, points) ==
    IF points.exc # None
    THEN /\ last' = Result(op, None, [handle |-> hd, tenors |-> tenors, path |-> path], points)
         /\ UNCHANGED <<files, curves>>
    ELSE /\ files' = [files EXCEPT ![path] = content]
         /\ AfterPoints(hd, Calculated(HandleCurve(hd), evaluationDate))
         /\ last' = Result(op, None, [handle |-> hd, tenors |-> tenors, path |-> path],
                           Ok(Nothing))

CsvContent(hd, points) ==
    IF points.exc # None THEN NoFile
    ELSE CurveFile("csv", CurveRef(HandleCurve(hd)), CsvRows(points.val.points))

JsonContent(hd, points) ==
    IF points.exc # None THEN NoFile
    ELSE CurveFile("json", CurveRef(HandleCurve(hd)), JsonPoints(points.val.points))

SaveCsvWith(hd, tenors, points) ==
    SaveWith("save_curve_to_csv", hd, tenors, CurvePath, CsvContent(hd, points), points)

SaveJsonWith(hd, tenors, points) ==
    SaveWith("save_curve_to_json", hd, tenors, CurvePath, JsonContent(hd, points), points)

\* save_curve_to_csv(handle, file_path, tenors).
SaveCurveToCsv(hd, tenors) ==
    /\ Readable(hd, tenors)
    /\ SaveCsvWith(hd, tenors, extract_curve_points(hd, tenors))
    /\ UNCHANGED <<md, registry, evaluationDate, pool, oisBuilder, builder, handles, quotes>>

\* save_curve_to_json(handle, file_path, tenors).
SaveCurveToJson(hd, tenors) ==
    /\ Readable(hd, tenors)
    /\ SaveJsonWith(hd, tenors, extract_curve_points(hd, tenors))
    /\ UNCHANGED <<md, registry, evaluationDate, pool, oisBuilder, builder, handles, quotes>>

\* What the loaders read in a file a saver wrote: the reference date and
\* the rows, dates parsed from their ISO strings, numbers from their text.
ParseFile(f) ==
    [has_ref |-> TRUE,
     ref |-> IsoToOreDate(f.reference_date),
     rows |-> [i \in 1..Len(f.rows) |->
                  [date |-> IsoToOreDate(f.rows[i].date),
                   df |-> f.rows[i].discount_factor,
                   zr |-> f.rows[i].zero_rate]]]

\* load_curve_from_csv on the file save_curve_to_csv wrote.
LoadSavedCsv(use_discount_factors) ==
    /\ files[CurvePath] # NoFile
    /\ files[CurvePath].format = "csv"
    /\ LoadCurveFromCsv(ParseFile(files[CurvePath]), use_discount_factors)

\* load_curve_from_json on the file save_curve_to_json wrote.
LoadSavedJson(use_discount_factors) ==
    /\ files[CurvePath] # NoFile
    /\ files[CurvePath].format = "json"
    /\ LoadCurveFromJson(ParseFile(files[CurvePath]), use_discount_factors)

(***************************************************************************)
(* The builder's life: construction, build and queries, over market data   *)
(* sound and unsound.                                                      *)
(***************************************************************************)
Init ==
    /\ pool = {"A"}
    /\ \E m \in MarketDataInputs : InitWith(m)

Next ==
    \/ \E b \in BuilderNames : Construct(b, 1, 1, 2)
    \/ \E b \in BuilderNames : Build(b)
    \/ \E b \in BuilderNames, d \in QueryDays : GetDiscountFactor(b, d)
    \/ \E b \in BuilderNames, d \in QueryDays, comp \in Compoundings :
            GetZeroRate(b, d, comp)
    \/ \E b \in BuilderNames, d \in QueryDays : GetImpliedFxForward(b, d)

Spec == Init /\ [][Next]_vars

(***************************************************************************)
(* The market-data object on its own: field assignments and lookups.       *)
(***************************************************************************)
Ccys == {"USD", "GBP", "JPY"}
Configs == {USD, GBP, JPY}
Tenors == {T1M, T3M, T12M, T1Y, T5Y}

MarketDataObjects ==
    {XCCYMarketData(0, USD, GBP, FxSpot, f, w, base) :
        f \in {<<FXForwardQuote(T3M, RInt(-38)), FXForwardQuote(T12M, RInt(-155))>>,
               <<FXForwardQuote(T3M, RInt(-38)), FXForwardQuote(T3M, RInt(-155))>>},
        w \in {<<XCCYBasisSwapQuote(T1Y, Rat(-25, 2)), XCCYBasisSwapQuote(T5Y, Rat(-35, 2))>>,
               <<>>},
        base \in {None, "USD", "JPY"}}

InitMD ==
    /\ pool = {}
    /\ \E m \in MarketDataObjects \cup FactoryData : InitWith(m)

\* Arguments the quote constructors are called with: the declared fields,
\* and the declared fields with a horizon (days, years) besides.
FXForwardQuoteArgs ==
    {[tenor |-> T3M, forward_points |-> RInt(-38)],
     [tenor |-> T3M, forward_points |-> RInt(-38), days |-> 90],
     [tenor |-> T3M]}

XCCYBasisSwapQuoteArgs ==
    {[tenor |-> T5Y, basis_spread |-> Rat(-35, 2)],
     [tenor |-> T5Y, basis_spread |-> Rat(-35, 2), years |-> 5]}

NextMD ==
    \/ \E kw \in FXForwardQuoteArgs : NewFXForwardQuote(kw)
    \/ \E kw \in XCCYBasisSwapQuoteArgs : NewXCCYBasisSwapQuote(kw)
    \/ \E c \in Ccys : AssignFxBaseCcy(c)
    \/ \E cfg \in Configs : AssignDomesticCcy(cfg)
    \/ \E cfg \in Configs : AssignForeignCcy(cfg)
    \/ ReadIsFxBaseDomestic
    \/ ReadCcyPair
    \/ \E t \in Tenors : GetForwardRate(t)
    \/ \E t \in Tenors : GetBasisSpreadBps(t)

SpecMD == InitMD /\ [][NextMD]_vars

(***************************************************************************)
(* Curves from build() and from the loaders, side by side.                 *)
(***************************************************************************)
Row(date, df, zr) == [date |-> date, df |-> df, zr |-> zr]
RowAtRef == Row(0, ROne, Rat(5, 100))
Row30 == Row(30, Rat(99, 100), Rat(5, 100))
Row60 == Row(60, Rat(98, 100), Rat(4, 100))

\* Files with and without the reference-date entry: no points, points
\* after the reference date in and out of order, a point on it.
Files ==
    {[has_ref |-> h, ref |-> 0, rows |-> r] :
        h \in BOOLEAN,
        r \in {<<>>, <<Row30>>, <<Row30, Row60>>, <<Row60, Row30>>, <<RowAtRef, Row30>>}}

\* Tenors that end before the settlement lag has passed.
T0W == <<"0", "W">>
TM1W == <<"-", "1", "W">>

\* Market data: sound; unsolvable; with maturities before the spot date.
InitCurves ==
    /\ pool = {"A"}
    /\ \E m \in {GbpUsd(<<FXForwardQuote(T3M, RInt(-38))>>,
                        <<XCCYBasisSwapQuote(T5Y, Rat(-35, 2))>>),
                 GbpUsd(<<FXForwardQuote(T3M, RInt(-12750))>>, <<>>),
                 GbpUsd(<<FXForwardQuote(T0W, RInt(0)), FXForwardQuote(TM1W, RInt(-5)),
                          FXForwardQuote(T3M, RInt(-38))>>, <<>>)} : InitWith(m)

NextCurves ==
    \/ \E b \in BuilderNames : Construct(b, 1, 1, 2)
    \/ \E b \in BuilderNames : Build(b)
    \/ \E b \in BuilderNames : BuildXccyCurve(b, 1, 1, 2)
    \/ \E b \in BuilderNames, d \in QueryDays : GetDiscountFactor(b, d)
    \/ \E f \in Files, u \in BOOLEAN : LoadCurveFromCsv(f, u)
    \/ \E f \in Files, u \in BOOLEAN : LoadCurveFromJson(f, u)

SpecCurves == InitCurves /\ [][NextCurves]_vars

(***************************************************************************)
(* Handles, savers and loaders: curves are built, wrapped in handles,      *)
(* saved, and loaded back.                                                 *)
(***************************************************************************)
T92D == <<"9", "2", "D">>

\* The tenors argument of the savers: None (the default grid) or a list.
TenorArgs ==
    {Nothing} \cup
    {[list |-> l] : l \in {<<>>, <<T5Y, T1Y>>, <<TXY, T92D>>}}

HandleIds == 1..MaxHandles

\* Tenor lists for extract_curve_points besides: three tenors in range, and
\* a list with a maturity before the reference date and a malformed tenor
\* between sound ones.
ExtractTenorArgs ==
    TenorArgs \cup
    {[list |-> l] : l \in {<<T1Y, T5Y, T10Y>>, <<TM1W, T1Y, TXY, T3M>>}}

\* The evaluation date is the valuation date, as build_xccy_curve and the
\* loaders leave it.
InitPersist ==
    /\ pool = {}
    /\ md = GbpUsd(<<FXForwardQuote(T3M, RInt(-38))>>,
                   <<XCCYBasisSwapQuote(T5Y, Rat(-35, 2))>>)
    /\ registry = Registry0
    /\ evaluationDate = DefaultValuationDate
    /\ builder = [b \in BuilderNames |-> NoBuilder]
    /\ oisBuilder = NoBuilder
    /\ curves = <<create_flat_forward_curve(DefaultValuationDate, Rat(5, 100)),
                  create_flat_forward_curve(DefaultValuationDate, Rat(4, 100))>>
    /\ handles = <<[link |-> 1, relinkable |-> FALSE], [link |-> 2, relinkable |-> FALSE]>>
    /\ quotes = <<>>
    /\ files = [p \in Paths |-> NoFile]
    /\ last = NoCall

\* An explicit tenor list is extracted and saved through any handle, the
\* default grid through the handle of the domestic curve.
NextPersist ==
    \/ \E c \in {Null, 1} : QuantlibCurveToRelinkableHandle(c)
    \/ \E hd \in HandleIds : OreHandleToCurve(hd)
    \/ \E hd \in HandleIds, t \in ExtractTenorArgs \ {Nothing} : ExtractCurvePoints(hd, t)
    \/ \E hd \in {1} : ExtractCurvePoints(hd, Nothing)
    \/ \E hd \in HandleIds, t \in TenorArgs \ {Nothing} : SaveCurveToCsv(hd, t)
    \/ \E hd \in HandleIds, t \in TenorArgs \ {Nothing} : SaveCurveToJson(hd, t)
    \/ \E hd \in {1} : SaveCurveToCsv(hd, Nothing)
    \/ \E u \in BOOLEAN : LoadSavedCsv(u)
    \/ \E u \in BOOLEAN : LoadSavedJson(u)

SpecPersist == InitPersist /\ [][NextPersist]_vars

(***************************************************************************)
(* Curves of every origin, read through their handles at their nodes and  *)
(* past the last of them.                                                  *)
(***************************************************************************)
OisRate(tenor, rate) == [tenor |-> tenor, rate |-> rate]

OisRateLists ==
    {<<>>, <<OisRate(T1Y, Rat(5, 100)), OisRate(T5Y, Rat(4, 100))>>,
     <<OisRate(TXY, Rat(5, 100))>>}

DatesRead == {0, 360, 362, 1802, 2162}

LoadedFiles ==
    {[has_ref |-> TRUE, ref |-> 0, rows |-> r] : r \in {<<>>, <<Row30, Row60>>}}

QueryHandles == 1..(MaxCurves + 2)

InitQueries ==
    /\ pool = {"A"}
    /\ InitWith(GbpUsd(<<FXForwardQuote(T3M, RInt(-38))>>,
                       <<XCCYBasisSwapQuote(T5Y, Rat(-35, 2))>>))

NextQueries ==
    \/ \E b \in BuilderNames : BuildXccyCurve(b, 1, 1, 2)
    \/ \E r \in OisRateLists : OisInit(DefaultValuationDate, USD, r)
    \/ OisBuild
    \/ \E f \in LoadedFiles, u \in BOOLEAN : LoadCurveFromCsv(f, u)
    \/ \E f \in LoadedFiles, u \in BOOLEAN : LoadCurveFromJson(f, u)
    \/ \E hd \in QueryHandles, d \in DatesRead : GetDiscountFactors(hd, d)
    \/ \E hd \in QueryHandles, d \in DatesRead : GetZeroRates(hd, d)

SpecQueries == InitQueries /\ [][NextQueries]_vars

(***************************************************************************)
(* The factories on their own: names are registered and created.          *)
(***************************************************************************)
\* Names the registries start with, and a name they do not.
CreateNames == {"SOFR", "TARGET", "Actual360", "Mars"}

\* The names a caller registers: one new, one a calendar already has.
RegisterNames == {"Mars", "TARGET"}

\* Constructors a caller registers.
Constructors == {"MarsIndex", "MarsCalendar"}

InitFactories ==
    /\ pool = {}
    /\ InitWith(GbpUsd(<<FXForwardQuote(T3M, RInt(-38))>>,
                       <<XCCYBasisSwapQuote(T5Y, Rat(-35, 2))>>))

NextFactories ==
    \/ \E n \in CreateNames, h \in {Null, 1} : CreateIndex(n, h)
    \/ \E n \in CreateNames : CreateCalendar(n)
    \/ \E n \in CreateNames : CreateDayCount(n)
    \/ \E n \in RegisterNames, c \in Constructors : RegisterIndex(n, c)
    \/ \E n \in RegisterNames, c \in Constructors : RegisterCalendar(n, c)

SpecFactories == InitFactories /\ [][NextFactories]_vars

(***************************************************************************)
(* Properties.                                                             *)
(***************************************************************************)
Getters == {"get_discount_factor", "get_zero_rate", "get_implied_fx_forward"}

RaisedNotBuilt(call) ==
    call.exc = "ValueError" /\ call.msg = "XCCY curve not built. Call build() first."

\* C1: a getter called on a builder raises ValueError 'XCCY curve not
\* built' exactly when foreign_xccy_curve is None; a new builder starts
\* with None; the field leaves None only by a build() that returns, every
\* build() that returns leaves it set, and once set it is never None again.
C1_NotBuiltUntilBuildReturns ==
    [][\A b \in BuilderNames :
        /\ (builder[b].alive /\ last'.b = b /\ last'.op \in Getters)
              => (RaisedNotBuilt(last') <=> builder[b].foreign_xccy_curve = Null)
        /\ (builder[b].alive /\ last'.b = b /\ last'.op = "build" /\ last'.exc = None)
              => builder'[b].foreign_xccy_curve # Null
        /\ (builder[b].alive /\ builder[b].foreign_xccy_curve = Null
                /\ builder'[b].foreign_xccy_curve # Null)
              => (last'.op = "build" /\ last'.b = b /\ last'.exc = None)
        /\ (builder[b].alive /\ builder[b].foreign_xccy_curve # Null)
              => (builder'[b].alive /\ builder'[b].foreign_xccy_curve # Null)
        /\ (~builder[b].alive /\ builder'[b].alive)
              => builder'[b].foreign_xccy_curve = Null
      ]_vars

\* A getter reports "not built" on a builder whose build() was called and
\* raised.
C1_Witness ==
    /\ last.op \in Getters
    /\ RaisedNotBuilt(last)
    /\ builder[last.b].fx_spot_handle # Null

\* The calibrating quotes of the market data, FX forwards then swaps.
QuoteTenors(m) ==
    [i \in 1..Len(m.fx_forwards) |-> m.fx_forwards[i].tenor] \o
    [i \in 1..Len(m.xccy_basis_swaps) |-> m.xccy_basis_swaps[i].tenor]

SharedMaturity(m) ==
    \E i, j \in 1..Len(QuoteTenors(m)) :
        /\ i < j
        /\ TenorToPeriod(QuoteTenors(m)[i]).ok
        /\ TenorToPeriod(QuoteTenors(m)[j]).ok
        /\ PeriodDays(TenorToPeriod(QuoteTenors(m)[i]))
              = PeriodDays(TenorToPeriod(QuoteTenors(m)[j]))

\* C2: no builder is constructed from market data in which two
\* calibrating quotes share a maturity (the constructor raises instead).
C2_SharedMaturityRejectedAtConstruction ==
    \A b \in BuilderNames : builder[b].alive => ~SharedMaturity(md)

\* C3: the helper list of every curve build() creates is in strictly
\* increasing order of maturity.
C3_HelpersStrictlyIncreasing ==
    \A i \in 1..Len(curves) :
        curves[i].kind = "PiecewiseLogLinearDiscount" =>
            \A j \in 1..(Len(curves[i].helpers) - 1) :
                PeriodDays(curves[i].helpers[j].period)
                    < PeriodDays(curves[i].helpers[j + 1].period)

UnknownCalendarOrForeignDayCount(m) ==
    \/ m.domestic_ccy.calendar_name \notin DOMAIN registry.calendar
    \/ m.foreign_ccy.calendar_name \notin DOMAIN registry.calendar
    \/ m.foreign_ccy.day_count \notin DOMAIN registry.daycount

UnknownIndex(m) ==
    \/ m.domestic_ccy.ois_index_name \notin DOMAIN registry.index
    \/ m.foreign_ccy.ois_index_name \notin DOMAIN registry.index

MalformedTenor(m) ==
    \E i \in 1..Len(QuoteTenors(m)) : ~TenorToPeriod(QuoteTenors(m)[i]).ok

\* C4: the constructor raises ValueError exactly for an unknown calendar
\* name (of either currency) or an unknown foreign day-count name;
\* build() raises ValueError exactly for an unknown OIS index name or a
\* malformed tenor; an unknown domestic day-count name raises in neither.
C4_ConfigurationErrorsByStage ==
    /\ last.op = "init" =>
          /\ last.exc \in {None, "ValueError"}
          /\ last.exc = "ValueError" <=> UnknownCalendarOrForeignDayCount(md)
    /\ last.op = "build" =>
          /\ ~UnknownCalendarOrForeignDayCount(md)
          /\ last.exc = "ValueError" <=> (UnknownIndex(md) \/ MalformedTenor(md))

\* The constructor returned and build() raised the configuration error.
C4_Witness ==
    /\ last.op = "build"
    /\ last.exc = "ValueError"
    /\ builder[last.b].alive
    /\ MalformedTenor(md)

\* C4 as stated: a constructor that returns leaves no configuration error
\* in the inputs.
C4_AllRaisedByConstructor ==
    \A b \in BuilderNames :
        builder[b].alive =>
            /\ ~UnknownCalendarOrForeignDayCount(md)
            /\ md.domestic_ccy.day_count \in DOMAIN registry.daycount
            /\ ~UnknownIndex(md)
            /\ ~MalformedTenor(md)

\* C5: a curve one of whose pillars cannot be solved is never the curve a
\* builder exposes in foreign_xccy_curve.
C5_UnsolvableCurveNotExposed ==
    \A b \in BuilderNames :
        (builder[b].alive /\ builder[b].foreign_xccy_curve # Null) =>
            Calculated(HandleCurve(builder[b].foreign_xccy_curve), evaluationDate).msg
                # "root not bracketed"

\* C7: with the FX base the foreign currency, spot 1.2750 and 3M points
\* -38, the implied FX forward at the 3M pillar is 1.2712.
C7_ImpliedForwardIsQuotedOutright ==
    (/\ last.op = "get_implied_fx_forward"
     /\ last.exc = None
     /\ ~is_fx_base_domestic(md)
     /\ md.fx_spot = Rat(12750, 10000)
     /\ md.fx_forwards # <<>>
     /\ md.fx_forwards[1] = FXForwardQuote(T3M, RInt(-38))
     /\ last.arg.date = md.valuation_date + SettlementDays + 90)
        => last.val.fwd = Rat(12712, 10000)

Loaders == {"load_curve_from_csv", "load_curve_from_json"}

Built == {i \in 1..Len(curves) : curves[i].kind = "PiecewiseLogLinearDiscount"}

ReadAtReference(c) == DiscountOf(c, Calculated(c, evaluationDate), CurveRef(c)).res

C9_FlagFixedForLife ==
    [][is_fx_base_domestic(md') = is_fx_base_domestic(md)]_vars

Hits(qs, tenor) == {i \in 1..Len(qs) : qs[i].tenor = tenor}

\* C10: get_forward_rate(t) returns fx_spot + forward_points/10000 of the
\* first FX-forward quote with tenor t, get_basis_spread_bps(t) the
\* basis_spread of the first basis-swap quote with tenor t; each raises
\* ValueError 'Unknown tenor' when its own list has no such quote; neither
\* changes the market data.
C10_TenorLookups ==
    [][/\ last'.op = "get_forward_rate" =>
            /\ md' = md
            /\ IF Hits(md.fx_forwards, last'.arg.tenor) = {}
               THEN last'.exc = "ValueError" /\ last'.msg = "Unknown tenor"
               ELSE /\ last'.exc = None
                    /\ \E i \in Hits(md.fx_forwards, last'.arg.tenor) :
                          /\ \A j \in Hits(md.fx_forwards, last'.arg.tenor) : i <= j
                          /\ RMul(last'.val, RInt(10000))
                                = RAdd(RMul(md.fx_spot, RInt(10000)),
                                       md.fx_forwards[i].forward_points)
       /\ last'.op = "get_basis_spread_bps" =>
            /\ md' = md
            /\ IF Hits(md.xccy_basis_swaps, last'.arg.tenor) = {}
               THEN last'.exc = "ValueError" /\ last'.msg = "Unknown tenor"
               ELSE /\ last'.exc = None
                    /\ \E i \in Hits(md.xccy_basis_swaps, last'.arg.tenor) :
                          /\ \A j \in Hits(md.xccy_basis_swaps, last'.arg.tenor) : i <= j
                          /\ last'.val = md.xccy_basis_swaps[i].basis_spread
      ]_vars

\* get_forward_rate('5Y') raises on data that has a 5Y basis swap.
C10_Witness ==
    /\ last.op = "get_forward_rate"
    /\ last.arg.tenor = T5Y
    /\ last.exc = "ValueError"
    /\ Hits(md.xccy_basis_swaps, T5Y) # {}

\* The two currencies of the pair are distinct and the FX base is one of
\* them.
BaseInPair(m) ==
    /\ m.domestic_ccy.ccy # m.foreign_ccy.ccy
    /\ m.fx_base_ccy \in {m.domestic_ccy.ccy, m.foreign_ccy.ccy}

C13_BuildXccyCurveResult ==
    [][(last'.op = "build_xccy_curve" /\ last'.exc = None) =>
          /\ DOMAIN last'.val = {"domestic_discount", "domestic_index", "foreign_index",
                                 "foreign_xccy", "fx_spot", "xccy_builder"}
          /\ last'.val.domestic_discount = last'.arg.domestic_discount_curve
          /\ last'.val.domestic_index = last'.arg.domestic_index_curve
          /\ last'.val.foreign_index = last'.arg.foreign_index_curve
          /\ \A h \in 1..Len(handles) : handles'[h] = handles[h]
          /\ \A c \in 1..Len(curves) : curves'[c] = curves[c]
          /\ builder'[last'.val.xccy_builder].alive
          /\ ~builder[last'.val.xccy_builder].alive
          /\ last'.val.foreign_xccy = builder'[last'.val.xccy_builder].foreign_xccy_curve
          /\ last'.val.fx_spot = builder'[last'.val.xccy_builder].fx_spot_handle
          /\ last'.val.foreign_xccy # Null
          /\ last'.val.fx_spot # Null
          /\ quotes'[last'.val.fx_spot] = md.fx_spot
          /\ ~CurveIsNone(builder'[last'.val.xccy_builder])
      ]_vars

\* build_xccy_curve has returned its dictionary, with distinct handles
\* for the domestic and the foreign index curve.
C13_Witness ==
    /\ last.op = "build_xccy_curve"
    /\ last.exc = None
    /\ last.val.domestic_index # last.val.foreign_index
    /\ builder[last.val.xccy_builder].foreign_xccy_curve = last.val.foreign_xccy

Savers == {"save_curve_to_csv", "save_curve_to_json"}

\* The curve the matching loader makes of a file in discount-factor mode.
Reloaded(f) == LoadedCurve(ParseFile(f).ref, ParseFile(f).rows, TRUE)

SameAtSavedDates(f, reloaded, c) ==
    \A i \in 1..Len(f.rows) :
        /\ Discount(reloaded, IsoToOreDate(f.rows[i].date)).exc = None
        /\ Within(Discount(reloaded, IsoToOreDate(f.rows[i].date)).val,
                  Discount(c, IsoToOreDate(f.rows[i].date)).val)

RoundTrip(f, reloaded, c) ==
    /\ reloaded.exc = None
    /\ CurveRef(reloaded.val) = CurveRef(c)
    /\ SameAtSavedDates(f, reloaded.val, c)

\* C14: the file a saver has written loads, with the matching loader in
\* discount-factor mode, into a curve with the reference date of the
\* saved curve and, at every saved date, its discount factor within 1e-10.
C14_SavedCurveReloads ==
    (last.op \in Savers /\ last.exc = None) =>
        RoundTrip(files[last.arg.path], Reloaded(files[last.arg.path]),
                  HandleCurve(last.arg.handle))

\* C15: ore_handle_to_curve raises ValueError 'Handle is empty ...' for a
\* handle linked to no curve and returns the linked curve otherwise;
\* extract_curve_points and the two savers raise the same error on such a
\* handle and leave every file as it was.
C15_EmptyHandleRejected ==
    [][/\ last'.op = "ore_handle_to_curve" =>
            IF handles[last'.arg.handle].link = Null
            THEN /\ last'.exc = "ValueError"
                 /\ last'.msg = "Handle is empty - not linked to any curve"
            ELSE /\ last'.exc = None
                 /\ last'.val.curve = handles[last'.arg.handle].link
       /\ (/\ last'.op \in Savers \cup {"extract_curve_points"}
           /\ handles[last'.arg.handle].link = Null) =>
            /\ last'.exc = "ValueError"
            /\ last'.msg = "Handle is empty - not linked to any curve"
            /\ files' = files
       /\ (/\ last'.op \in Savers \cup {"extract_curve_points"}
           /\ handles[last'.arg.handle].link # Null) =>
            last'.exc = None
      ]_vars

\* A saver is refused an empty handle when a file has already been
\* written at its path.
C15_Witness ==
    /\ last.op = "save_curve_to_csv"
    /\ last.exc = "ValueError"
    /\ handles[last.arg.handle].link = Null
    /\ files[CurvePath] # NoFile

FactoryCreates == {"OISIndexFactory.create", "CalendarFactory.create", "DayCountFactory.create"}

RegistryOf(op) ==
    CASE op = "OISIndexFactory.create" -> registry.index
      [] op = "CalendarFactory.create" -> registry.calendar
      [] op = "DayCountFactory.create" -> registry.daycount

UnknownOf(op) ==
    CASE op = "OISIndexFactory.create" -> "Unknown OIS index"
      [] op = "CalendarFactory.create" -> "Unknown calendar"
      [] op = "DayCountFactory.create" -> "Unknown day count"

\* C16: a create of any of the three factories raises ValueError, with the
\* factory's own 'Unknown ...' message, exactly when the name is not in
\* the factory's registry as the call finds it; otherwise it returns what
\* the constructor registered under the name makes (an index on the curve
\* handle passed); in either case the registries are as they were.
C16_CreateByRegisteredName ==
    [][last'.op \in FactoryCreates =>
          /\ registry' = registry
          /\ IF last'.arg.name \notin DOMAIN RegistryOf(last'.op)
             THEN /\ last'.exc = "ValueError"
                  /\ last'.msg = UnknownOf(last'.op)
             ELSE /\ last'.exc = None
                  /\ last'.val.created = RegistryOf(last'.op)[last'.arg.name]
                  /\ last'.val.curve_handle = last'.arg.curve_handle]_vars

\* A name no registry starts with is created after it was registered, and
\* a day count of that name is still refused.
C16_Witness ==
    /\ last.op = "CalendarFactory.create"
    /\ last.arg.name \notin CalendarNames
    /\ last.exc = None
    /\ last.val.created = "MarsCalendar"
    /\ DayCountFactoryCreate(last.arg.name).exc = "ValueError"

HandleQueries == {"get_discount_factors", "get_zero_rates"}

\* A date a year past the last node of a curve.
PastLastPillar(c) == CurveMaxDate(c) + 360

\* The read that has just returned was of a date past the last pillar of a
\* curve that calculates.
ReadPastLastPillar(hd, d, cv) ==
    /\ cv.exc = None
    /\ cv.val.kind # "FlatForward"
    /\ d > CurveMaxDate(cv.val)

CurvesOnOffer ==
    {curves[i] : i \in 1..Len(curves)} \cup
    {EnableExtrapolation(LoadedCurve(f.ref, f.rows, u).val) :
        f \in {g \in LoadedFiles : g.rows # <<>>}, u \in BOOLEAN}

QuoteConstructors == {"FXForwardQuote", "XCCYBasisSwapQuote"}

FieldsOf(op) ==
    IF op = "FXForwardQuote" THEN FXForwardQuoteFields ELSE XCCYBasisSwapQuoteFields

C19_BuildRunsUnderOwnDate ==
    [][last'.op = "build" =>
          evaluationDate = builder[last'.b].conv.eval_date]_vars

\* The helpers a bootstrap solves, in the order it solves them.
AliveHelpers(c, evalDate) ==
    DropExpired(SortByPillar(c.helpers, evalDate), c.ref, evalDate)

ReferencePillar(ref) == [date |-> ref, df |-> ROne]

\* The pillars as the bootstrap leaves them after each of its steps: the
\* sequence after step k is the first k + 1 pillars of the final sequence.
PillarsAppendOnly(nodes, alive, evalDate, ref) ==
    /\ Len(nodes) = Len(alive) + 1
    /\ nodes[1] = ReferencePillar(ref)
    /\ StrictlyIncreasing([k \in 1..Len(nodes) |-> nodes[k].date])
    /\ \A k \in 0..Len(alive) :
          SolveNodes(SubSeq(alive, 1, k), Ok(<<ReferencePillar(ref)>>), evalDate, ref)
            = Ok(SubSeq(nodes, 1, k + 1))

SameQuote(h1, h2) ==
    /\ h1.type = h2.type
    /\ h1.tenor = h2.tenor
    /\ h1.quote = h2.quote
    /\ h1.settlementDays = h2.settlementDays
    /\ quotes[h1.spot] = quotes[h2.spot]
    /\ h1.coll = h2.coll
    /\ h1.type = "fx" =>
          h1.isFxBaseCurrencyCollateralCurrency = h2.isFxBaseCurrencyCollateralCurrency
    /\ h1.type = "swap" => h1.foreignIndexCurve = h2.foreignIndexCurve

\* Two curves build() made from equal market data and equal input curves.
SameInputs(c1, c2) ==
    /\ c1.ref = c2.ref
    /\ c1.dayCount = c2.dayCount
    /\ Len(c1.helpers) = Len(c2.helpers)
    /\ \A k \in 1..Len(c1.helpers) : SameQuote(c1.helpers[k], c2.helpers[k])

\* C22: the bootstrap is deterministic.  Two curves that build() made from
\* equal market data and equal input curves have equal pillar sequences
\* once they are bootstrapped, whatever builder or loader operations ran
\* before or between the two runs.
C22_BuildIsDeterministic ==
    \A i \in Built : \A j \in Built :
        (/\ curves[i].calculated
         /\ curves[j].calculated
         /\ SameInputs(curves[i], curves[j])) =>
            curves[i].nodes = curves[j].nodes

\* The relinkable handles build() makes for the curves it bootstraps.
BootstrapHandles ==
    {h \in 1..Len(handles) : handles[h].relinkable /\ handles[h].link \in Built}

\* The handles a caller can hold: those the builders store, and the one
\* the last build() returned.
ExposedHandles ==
    {builder[b].foreign_xccy_curve : b \in {n \in BuilderNames : builder[n].alive}}
        \cup (IF last.op = "build" /\ last.exc = None THEN {last.val.handle} ELSE {})
        \cup (IF last.op = "build_xccy_curve" /\ last.exc = None
              THEN {last.val.foreign_xccy, last.val.domestic_discount,
                    last.val.domestic_index, last.val.foreign_index}
              ELSE {})

\* The basis-swap helpers of a built curve see the curve through a
\* relinkable handle linked to that very curve.
HelpersSeeOwnCurve ==
    \A i \in Built : \A k \in 1..Len(curves[i].helpers) :
        curves[i].helpers[k].type = "swap" =>
            /\ curves[i].helpers[k].foreignDiscount \in BootstrapHandles
            /\ handles[curves[i].helpers[k].foreignDiscount].link = i

\* C23: the relinkable handle through which the basis-swap helpers see the
\* curve being solved is linked once, to the curve its build() creates,
\* and never relinked; no caller gets it: the handle build() stores and
\* returns is another handle, which is not relinkable.
C23_BootstrapHandleIsPrivate ==
    [][/\ \A h \in 1..Len(handles) : h <= Len(handles') /\ handles'[h] = handles[h]
       /\ HelpersSeeOwnCurve'
       /\ BootstrapHandles' \cap ExposedHandles' = {}
       /\ \A h \in ExposedHandles' \ {Null} : ~handles'[h].relinkable]_vars

\* A build() with a basis-swap helper has returned its handle.
C23_Witness ==
    /\ last.op = "build"
    /\ last.exc = None
    /\ handles[last.val.handle].link \in Built
    /\ \E k \in 1..Len(curves[handles[last.val.handle].link].helpers) :
          /\ curves[handles[last.val.handle].link].helpers[k].type = "swap"
          /\ curves[handles[last.val.handle].link].helpers[k].foreignDiscount
                # last.val.handle

\* A build() on builder b has returned in this step, and b had been built
\* before it.
Rebuilt(b) ==
    /\ last'.op = "build"
    /\ last'.b = b
    /\ last'.exc = None
    /\ builder[b].alive
    /\ builder[b].foreign_xccy_curve # Null

\* C24: rebuilding produces a new curve.  A second build() on a builder
\* creates a new curve, a new FX spot quote and a new handle and stores
\* them in foreign_xccy_curve and fx_spot_handle; the handle the first
\* build() returned stays linked to the first curve, and that curve is as
\* it was.
C24_RebuildMakesNewCurve ==
    [][\A b \in BuilderNames : Rebuilt(b) =>
          /\ Len(curves') = Len(curves) + 1
          /\ Len(quotes') = Len(quotes) + 1
          /\ builder'[b].fx_spot_handle = Len(quotes')
          /\ builder'[b].fx_spot_handle # builder[b].fx_spot_handle
          /\ builder'[b].foreign_xccy_curve > Len(handles)
          /\ builder'[b].foreign_xccy_curve = last'.val.handle
          /\ handles'[builder'[b].foreign_xccy_curve].link = Len(curves')
          /\ handles'[builder[b].foreign_xccy_curve] = handles[builder[b].foreign_xccy_curve]
          /\ curves'[handles[builder[b].foreign_xccy_curve].link]
                = curves[handles[builder[b].foreign_xccy_curve].link]
          /\ \A q \in 1..Len(quotes) : quotes'[q] = quotes[q]]_vars

\* A builder built twice, its first curve bootstrapped in between.
C24_Witness ==
    /\ last.op = "build"
    /\ last.exc = None
    /\ Cardinality(Built) = 2
    /\ \E i \in Built : curves[i].calculated /\ handles[last.val.handle].link # i

\* The FX-forward quotes whose tenor count is zero or negative: their
\* maturity is not after the spot date.
EarlyMaturities(m) ==
    {k \in 1..Len(m.fx_forwards) :
        /\ TenorToPeriod(m.fx_forwards[k].tenor).ok
        /\ TenorToPeriod(m.fx_forwards[k].tenor).n <= 0}

\* C25: an FX-forward quote whose maturity falls before the settlement
\* lag (a tenor count of zero or less, '0W', '-1W') is rejected with a
\* configuration error: build() raises, and no helper is created for the
\* quote.
C25_EarlyMaturityRejected ==
    /\ (last.op \in {"build", "build_xccy_curve"} /\ EarlyMaturities(md) # {}) =>
            last.exc = "ValueError"
    /\ \A i \in Built : \A k \in 1..Len(curves[i].helpers) :
            curves[i].helpers[k].period.n > 0

\* Every name a registry holds keeps its constructor over the step.
ConstructorsKept(reg, regAfter) ==
    \A n \in DOMAIN reg : n \in DOMAIN regAfter /\ regAfter[n] = reg[n]

\* C26: registration is guarded against duplicates.  A register call with
\* a name the registry already holds, built-in or registered before, does
\* not replace the constructor under that name, so create(name) returns
\* the same kind of object before and after the call.
C26_RegisterKeepsExistingName ==
    [][/\ ConstructorsKept(registry.index, registry'.index)
       /\ ConstructorsKept(registry.calendar, registry'.calendar)
       /\ \A n \in DOMAIN registry.index :
              FactoryCreate(registry'.index, n, "Unknown OIS index")
                = FactoryCreate(registry.index, n, "Unknown OIS index")
       /\ \A n \in DOMAIN registry.calendar :
              FactoryCreate(registry'.calendar, n, "Unknown calendar")
                = FactoryCreate(registry.calendar, n, "Unknown calendar")]_vars

\* The date a tenor leads to from a curve's reference date.
TargetDate(c, tenor) == DatePlus(CurveRef(c), OrePeriod(tenor))

\* The evaluation of a tenor succeeds: it parses, and the curve has a
\* discount factor at its date.
Succeeds(c, tenor) ==
    /\ OrePeriod(tenor).ok
    /\ Discount(c, TargetDate(c, tenor)).exc = None

\* How many of the first k tenors succeed.
Rank(c, tenors, k) == Cardinality({i \in 1..k : Succeeds(c, tenors[i])})

\* The triple of a tenor that succeeds.
Triple(c, tenor) ==
    [date |-> OreDateToIso(TargetDate(c, tenor)),
     df |-> Discount(c, TargetDate(c, tenor)).val,
     zero |-> ZeroRateContinuous(Discount(c, TargetDate(c, tenor)).val,
                                 TargetDate(c, tenor) - CurveRef(c))]

\* The points are the triples of the tenors that succeed, in the order of
\* the tenors.
PointsOfSucceeding(points, c, tenors) ==
    /\ Len(points) = Rank(c, tenors, Len(tenors))
    /\ \A k \in 1..Len(tenors) :
          Succeeds(c, tenors[k]) => points[Rank(c, tenors, k)] = Triple(c, tenors[k])
    /\ Len(points) = Len(tenors) <=> \A k \in 1..Len(tenors) : Succeeds(c, tenors[k])

\* C27: extract_curve_points returns one (iso date, discount factor, zero
\* rate) triple for each requested tenor whose evaluation succeeds, in
\* the order of the request; a tenor whose evaluation raises RuntimeError
\* is left out without an error, so the result has as many entries as the
\* request only when every tenor succeeds.
C27_PointsAreSucceedingTenors ==
    (last.op = "extract_curve_points" /\ last.exc = None) =>
        PointsOfSucceeding(last.val.points, HandleCurve(last.arg.handle),
                           TenorsOrDefault(last.arg.tenors))

\* Four tenors were requested, the first and the third failed, and the
\* points of the other two were returned.
C27_Witness ==
    /\ last.op = "extract_curve_points"
    /\ last.exc = None
    /\ last.arg.tenors # Nothing
    /\ Len(last.arg.tenors.list) = 4
    /\ Len(last.val.points) = 2
    /\ ~Succeeds(HandleCurve(last.arg.handle), last.arg.tenors.list[1])
    /\ last.val.points[2] = Triple(HandleCurve(last.arg.handle), last.arg.tenors.list[4])

\* C28: for every file with at least one data row, the dates
\* load_curve_from_csv hands to the curve constructor are strictly
\* increasing and start at the reference date, also when the file has no
\* reference-date row and the first data row's date is taken.
C28_LoaderDatesStrictlyIncreasing ==
    [][\A f \in Files : \A u \in BOOLEAN :
          (LoadCurveFromCsv(f, u) /\ f.rows # <<>>) =>
              /\ AllDates(CsvRefDate(f), f.rows)[1] = evaluationDate'
              /\ StrictlyIncreasing(AllDates(CsvRefDate(f), f.rows))]_vars

\* C29: a build() that raises leaves the builder as it was:
\* foreign_xccy_curve and fx_spot_handle both keep the values they had
\* before the call.
C29_FailedBuildLeavesBuilder ==
    [][(last'.op = "build" /\ last'.exc # None) =>
          /\ builder'[last'.b].foreign_xccy_curve = builder[last'.b].foreign_xccy_curve
          /\ builder'[last'.b].fx_spot_handle = builder[last'.b].fx_spot_handle]_vars

\* The pair string starts with the currency code.
StartsWith(pair, ccy) == \E rest \in Ccys : pair = ccy \o rest

\* The pair string is the two configured codes, each once.
NamesBothOnce(pair, m) ==
    /\ m.domestic_ccy.ccy # m.foreign_ccy.ccy
    /\ pair \in {m.domestic_ccy.ccy \o m.foreign_ccy.ccy,
                 m.foreign_ccy.ccy \o m.domestic_ccy.ccy}

\* C30: as constructed, an XCCYMarketData has an fx_base_ccy that is not
\* None and is one of its two configured currency codes, so ccy_pair names
\* the domestic and the foreign currency, each once, and
\* is_fx_base_domestic is True exactly when ccy_pair starts with the
\* domestic code.
C30_FxBaseIsOneOfThePair ==
    last = NoCall =>
        /\ md.fx_base_ccy # None
        /\ md.fx_base_ccy \in {md.domestic_ccy.ccy, md.foreign_ccy.ccy}
        /\ NamesBothOnce(ccy_pair(md), md)
        /\ is_fx_base_domestic(md) <=> StartsWith(ccy_pair(md), md.domestic_ccy.ccy)

====
